---- MODULE Spec2Model ----
(***************************************************************************)
(* Model of the MistralOCR Chrome extension's background worker            *)
(* (src/chrome-extension/background.js): the resilient fetch wrapper,      *)
(* credential redaction for logging, and the tab-processing orchestrator.  *)
(*                                                                         *)
(* Strings are sequences of one-character strings.  A constant piece of    *)
(* text whose characters never matter (a log label, a URL) is written as a *)
(* one-element sequence holding the whole text.                            *)
(***************************************************************************)
EXTENDS Integers, Sequences, FiniteSets, TLC

(***************************************************************************)
(* Bounds of the model.                                                    *)
(***************************************************************************)
\* largest `retries` argument tried in a direct call of fetchWithRetry
MaxRetries == 2
\* longest API key enumerated for the header functions
MaxKeyLen == 5
\* largest number of pieces a text given to markdownToText is made of
MaxPieces == 3

(***************************************************************************)
(* Program constants.                                                      *)
(***************************************************************************)
DefaultBackoff == 500
DefaultTimeout == 5000
OcrTimeout == 15000
OcrRetries == 2
TestRetries == 1
KeyPreviewLen == 4

(***************************************************************************)
(* Strings.                                                                *)
(***************************************************************************)
\* characters an API key is made of; "\n" stands for a line terminator.  The
\* popup stores the trimmed value of its key field, so a key neither starts
\* nor ends with white space
KeyChars == {"k", "9", " ", "\n"}

IsWs(c) == c \in {" ", "\t", "\n", "\r"}

IsLineTerminator(c) == c \in {"\n", "\r"}

\* String.prototype.trim
RECURSIVE TrimLeft(_)
TrimLeft(s) ==
  IF s # <<>> /\ IsWs(Head(s)) THEN TrimLeft(Tail(s)) ELSE s

RECURSIVE TrimRight(_)
TrimRight(s) ==
  IF s # <<>> /\ IsWs(s[Len(s)]) THEN TrimRight(SubSeq(s, 1, Len(s) - 1)) ELSE s

Trim(s) == TrimRight(TrimLeft(s))

\* k occurs in s as a substring
Contains(s, k) ==
  \E i \in 0..(Len(s) - Len(k)) : SubSeq(s, i + 1, i + Len(k)) = k

SeqsUpTo(S, n) == UNION {[1..m -> S] : m \in 0..n}

\* the keys the popup can store: trimmed, possibly empty
Keys == {k \in SeqsUpTo(KeyChars, MaxKeyLen) : Trim(k) = k}

BearerWord == <<"B", "e", "a", "r", "e", "r">>

BearerMask == BearerWord \o <<" ", "*", "*", "*">>

KeyMask == <<"*", "*", "*">>

JsonType == <<"application/json">>

\* the stored keys tried in the flows: none, one no longer than the preview
\* runTests logs, one longer
SampleKeys == {<<>>, <<"k", "9">>, <<"k", "9", " ", "9", "k">>}

(***************************************************************************)
(* scrubHeaders and buildAuthHeaders.  A headers object is a function from *)
(* header names to strings.                                                *)
(***************************************************************************)
NoHeaders == [h \in {} |-> <<>>]

\* `Bearer ${apiKey}` and the X-API-Key copy of the key
buildAuthHeaders(apiKey, includeXApi) ==
  IF apiKey # <<>>
  THEN [h \in {"Authorization"} \cup (IF includeXApi THEN {"X-API-Key"} ELSE {}) |->
          IF h = "Authorization" THEN BearerWord \o <<" ">> \o apiKey ELSE apiKey]
  ELSE NoHeaders

\* the length of the run of white space of s that starts at position p
WsRun(s, p) ==
  CHOOSE n \in 0..(Len(s) - p + 1) :
    /\ \A j \in 0..(n - 1) : IsWs(s[p + j])
    /\ (p + n > Len(s) \/ ~IsWs(s[p + n]))

\* /Bearer\s+.+/ matched at position i of s: the numbers j of white-space
\* characters \s+ may take so that .+ still finds a character to start on
BearerSplits(s, i) ==
  IF i + 5 <= Len(s) /\ SubSeq(s, i, i + 5) = BearerWord
  THEN {j \in 1..WsRun(s, i + 6) :
          i + 6 + j <= Len(s) /\ ~IsLineTerminator(s[i + 6 + j])}
  ELSE {}

Max(S) == CHOOSE x \in S : \A y \in S : y <= x

Min(S) == CHOOSE x \in S : \A y \in S : x <= y

\* the last position of the greedy .+ that starts at position p of s
DotRunEnd(s, p) ==
  Max({e \in p..Len(s) : \A q \in p..e : ~IsLineTerminator(s[q])})

\* s.replace(/Bearer\s+.+/, "Bearer ***"): the first match only
ReplaceBearer(s) ==
  LET starts == {i \in 1..Len(s) : BearerSplits(s, i) # {}}
  IN IF starts = {} THEN s
     ELSE LET i == Min(starts)
              p == i + 6 + Max(BearerSplits(s, i))
          IN SubSeq(s, 1, i - 1) \o BearerMask \o SubSeq(s, DotRunEnd(s, p) + 1, Len(s))

\* the header value scrubHeaders writes for header h of the copy
ScrubValue(h, v) ==
  IF h = "Authorization" /\ v # <<>> THEN ReplaceBearer(v)
  ELSE IF h = "X-API-Key" /\ v # <<>> THEN KeyMask
  ELSE v

\* scrubHeaders: `clean` is the object returned, `headers` the caller's object
\* as the call leaves it
scrubHeaders(headers) ==
  [clean |-> [h \in DOMAIN headers |-> ScrubValue(h, headers[h])],
   headers |-> headers]

\* the strings a headers object carries
HeaderValues(headers) == {headers[h] : h \in DOMAIN headers}

(***************************************************************************)
(* State.                                                                  *)
(***************************************************************************)
VARIABLES
  debugEnabled,  \* the worker's debug-logging flag
  storage,       \* chrome.storage.local: api_key, model, language, format
  net,           \* the network under study: its statuses, and whether an
                 \* endpoint answers every attempt alike
  cs,            \* the tab's content script: listening, absent, blocked, mute
  logged,        \* the strings written to the console and forwarded to the tab
  requests,      \* the outbound requests handed to fetch
  oracle,        \* what the environment has answered so far, per question
  fw,            \* the frame of the running fetchWithRetry call
  hd,            \* a headers object and the copy scrubHeaders made of it
  sm,            \* the frame of sendMessageWithInjection
  ocr,           \* the frame of fetchAndOCR
  pt,            \* the frame of processTab
  rt,            \* the frame of runTests
  op,            \* the listener that started the action, and its response
  downloads,     \* what was handed to chrome.downloads.download, in order
  prev,          \* the outcome of the action that ran before this one
  tx,            \* a text and what markdownToText made of it
  other,         \* the frames of a second action in flight, while it waits
  sw,            \* the stored debug flag and the callbacks on their way
  dom            \* the page of the content script and what it extracted

vars == <<debugEnabled, storage, net, cs, logged, requests, oracle, fw, hd, sm,
          ocr, pt, rt, op, downloads, prev, tx, other, sw, dom>>

\* what fetchWithRetry never writes
fetchFrame ==
  <<debugEnabled, storage, net, cs, hd, sm, ocr, pt, rt, op, downloads, prev, tx, other,
    sw, dom>>

(***************************************************************************)
(* Logging.  log writes its arguments to the console and hands the same    *)
(* arguments to forwardConsole; errorLog does so with the serialised       *)
(* arguments; debugLog is log under the debug flag.                        *)
(***************************************************************************)
Log(leaves) == logged \cup leaves

ErrorLog(leaves) == logged \cup leaves

DebugLog(leaves) == IF debugEnabled THEN Log(leaves) ELSE logged

(***************************************************************************)
(* The environment.  Each question (the answer to a fetch attempt, the     *)
(* page's content, ...) is answered once and the answer is kept, so that a *)
(* second action on the same tab meets the same document and network.      *)
(***************************************************************************)
NoAnswers == [q \in {} |-> 0]

Ask(q, a) ==
  IF q \in DOMAIN oracle
  THEN a = oracle[q] /\ UNCHANGED oracle
  ELSE oracle' = (q :> a) @@ oracle

\* the statuses tried in direct calls of fetchWithRetry
Statuses == {200, 401, 404, 500, 503}

\* the statuses the services answer with in the worker's flows
ServiceStatuses == {200, 401, 403, 500}

\* how the read of a response's body ends: text, an error, or never
BodyReads == {"text", "error", "stalled"}

NetError == [kind |-> "neterr", status |-> 0, bodyRead |-> "none"]

AbortError == [kind |-> "timeout", status |-> 0, bodyRead |-> "none"]

Response(status, bodyRead) == [kind |-> "resp", status |-> status, bodyRead |-> bodyRead]

NoOutcome == [kind |-> "none", status |-> 0, bodyRead |-> "none"]

ExhaustedError == [kind |-> "exhausted", status |-> 0, bodyRead |-> "none"]

\* Response.ok
\* a variant that takes every status for a success
OkAlways(status) == TRUE

Ok(status) == status \in 200..299

(***************************************************************************)
(* fetchWithRetry(url, options, retries, backoff).                         *)
(***************************************************************************)
NoBody == {}

Options(method, headers, body, timeout) ==
  [method |-> method, headers |-> headers, body |-> body, timeout |-> timeout]

IdleFetch ==
  [pc |-> "idle", url |-> "", options |-> Options("", NoHeaders, NoBody, 0),
   retries |-> 0, backoff |-> 0, attempt |-> 0, calls |-> 0, waits |-> <<>>,
   outcomes |-> <<>>, timer |-> "none", deadline |-> 0, resp |-> NoOutcome,
   result |-> NoOutcome]

\* the frame at the entry of fetchWithRetry
FetchCall(url, options, retries, backoff) ==
  [IdleFetch EXCEPT !.pc = "loop", !.url = url, !.options = options,
                    !.retries = retries, !.backoff = backoff]

\* a variant that retries on every unsuccessful status
ShouldRetryAnyError(status, attempt, retries) ==
  ~Ok(status) /\ attempt < retries

\* a variant that also waits after the last attempt
ShouldRetryPastLast(status, attempt, retries) ==
  ~Ok(status) /\ status >= 500

\* a variant that also retries a refused key
ShouldRetryUnauthorized(status, attempt, retries) ==
  ~Ok(status) /\ attempt < retries /\ status >= 401

\* !resp.ok && attempt < retries && resp.status >= 500
ShouldRetry(status, attempt, retries) ==
  ~Ok(status) /\ attempt < retries /\ status >= 500

\* a variant whose backoff does not grow
BackoffWaitConstant(backoff, attempt) == backoff

\* a variant whose first wait is already doubled
BackoffWaitDoubled(backoff, attempt) == backoff * 2 ^ (attempt + 1)

\* backoff * 2 ** attempt
BackoffWait(backoff, attempt) == backoff * 2 ^ attempt

\* a variant that gives up one attempt early
CatchRethrowsEarly(attempt, retries) == attempt + 1 >= retries

\* a variant that waits and goes on after every caught error
CatchRethrowsNever(attempt, retries) == FALSE

\* attempt === retries, in the catch clause
CatchRethrows(attempt, retries) == attempt = retries

\* options.timeout || 5000
AttemptTimeout(options) == IF options.timeout # 0 THEN options.timeout ELSE DefaultTimeout

\* await new Promise((r) => setTimeout(r, backoff * 2 ** attempt)), then the
\* next turn of the loop
WaitAndLoop(f) ==
  [f EXCEPT !.waits = Append(@, BackoffWait(f.backoff, f.attempt)),
            !.attempt = @ + 1, !.pc = "loop"]

\* lines 100-105: retry after a wait, or return the response
Settle(f) ==
  IF ShouldRetry(f.resp.status, f.attempt, f.retries)
  THEN WaitAndLoop(f)
  ELSE [f EXCEPT !.pc = "returned", !.result = f.resp]

\* lines 106-110: the catch clause
Catch(f, e) ==
  IF CatchRethrows(f.attempt, f.retries)
  THEN [f EXCEPT !.pc = "thrown", !.result = e]
  ELSE WaitAndLoop(f)

\* what the request log of one attempt writes
RequestLeaves(f, clean) ==
  {<<"fetchWithRetry request">>, <<f.url>>, <<f.options.method>>}
    \cup HeaderValues(clean) \cup f.options.body

\* the head of the loop: the request is logged with scrubbed headers, the
\* deadline timer is armed and fetch is called; past the last attempt the
\* final throw is reached
FwLoop ==
  /\ fw.pc = "loop"
  /\ IF fw.attempt <= fw.retries
     THEN LET sc == scrubHeaders(fw.options.headers)
              hdrs == sc.headers
          IN /\ logged' = DebugLog(RequestLeaves(fw, sc.clean))
             /\ requests' = requests \cup
                  {[url |-> fw.url, headers |-> hdrs, body |-> fw.options.body]}
             /\ fw' = [fw EXCEPT !.pc = "fetching", !.calls = @ + 1,
                                 !.options.headers = hdrs,
                                 !.timer = "armed",
                                 !.deadline = AttemptTimeout(fw.options)]
     ELSE /\ fw' = [fw EXCEPT !.pc = "thrown", !.result = ExhaustedError]
          /\ UNCHANGED <<logged, requests>>
  /\ UNCHANGED <<oracle, fetchFrame>>

\* the question a fetch attempt puts to the network
NetQ(f) == <<f.url, IF net.steady THEN 0 ELSE f.attempt>>

\* fetch rejects with a network error; the timer is left to run out
FwNetError ==
  /\ fw.pc = "fetching"
  /\ Ask(NetQ(fw), NetError)
  /\ logged' = DebugLog({<<"Fetch error">>, <<fw.url>>, <<"neterr">>})
  /\ fw' = Catch([fw EXCEPT !.outcomes = Append(@, NetError)], NetError)
  /\ UNCHANGED <<requests, fetchFrame>>

\* the deadline passes with the request in flight: controller.abort() makes
\* fetch reject
FwTimeout ==
  /\ fw.pc = "fetching"
  /\ fw.timer = "armed"
  /\ Ask(NetQ(fw), AbortError)
  /\ logged' = DebugLog({<<"Fetch error">>, <<fw.url>>, <<"timeout">>})
  /\ fw' = Catch([fw EXCEPT !.outcomes = Append(@, AbortError), !.timer = "fired"],
                 AbortError)
  /\ UNCHANGED <<requests, fetchFrame>>

\* what the retry message of line 101 writes
RetryLeaves(f) ==
  IF ShouldRetry(f.resp.status, f.attempt, f.retries)
  THEN {<<"Fetch failed with status, retrying...">>, <<f.url>>}
  ELSE {}

\* fetch resolves: the timer is cleared; with debug logging on the body of a
\* clone is read next, otherwise the response is settled
FwResponse ==
  /\ fw.pc = "fetching"
  /\ \E status \in net.statuses, br \in BodyReads :
       LET r == Response(status, IF debugEnabled THEN br ELSE "none")
           f == [fw EXCEPT !.outcomes = Append(@, r), !.resp = r, !.timer = "cleared"]
       IN /\ (~debugEnabled => br = "text")
          /\ Ask(NetQ(fw), r)
          /\ fw' = IF debugEnabled THEN [f EXCEPT !.pc = "readBody"] ELSE Settle(f)
  /\ UNCHANGED <<logged, requests, fetchFrame>>

\* the clone's body arrives, or its read fails and "<unreadable>" is logged;
\* a body that never ends leaves the call waiting here
FwBodyRead ==
  /\ fw.pc = "readBody"
  /\ fw.resp.bodyRead \in {"text", "error"}
  /\ logged' = DebugLog(
       {<<"fetchWithRetry response">>, <<fw.url>>,
        IF fw.resp.bodyRead = "text" THEN <<"response body">> ELSE <<"<unreadable>">>}
       \cup RetryLeaves(fw))
  /\ fw' = Settle(fw)
  /\ UNCHANGED <<requests, oracle, fetchFrame>>

FwStep == FwLoop \/ FwNetError \/ FwTimeout \/ FwResponse \/ FwBodyRead

FwDone == fw.pc \in {"returned", "thrown"}

(***************************************************************************)
(* Values of the worker's flows.                                           *)
(***************************************************************************)
\* what a page or a selection converts to: nothing, white space, text, and a
\* lone markup marker
Contents == {<<>>, <<" ">>, <<"a">>, <<"#">>}

Titles == {<<>>, <<"M", "y", " ", "/", "d", "-", "1">>}

\* a variant that takes only the empty string for blank
BlankOnlyIfEmpty(s) == s = <<>>

\* a variant that takes every string for blank
BlankAlways(s) == TRUE

Blank(s) == Trim(s) = <<>>

\* what sendMessageWithInjection hands back: null, the answer undefined, an
\* object with a markdown string, an object whose markdown is no string
NullResp == [kind |-> "null", markdown |-> <<>>]

UndefinedResp == [kind |-> "undefined", markdown |-> <<>>]

NonStringResp == [kind |-> "nonstring", markdown |-> <<>>]

MarkdownResp(md) == [kind |-> "object", markdown |-> md]

\* the answers of a listening content script
Answers == {MarkdownResp(md) : md \in Contents} \cup {UndefinedResp, NonStringResp}

NoTab == [present |-> FALSE, title |-> <<>>]

Tab(title) == [present |-> TRUE, title |-> title]

DefaultModel == <<"mistral-ocr-latest">>

\* getSettings: the stored values, with their defaults
getSettings(items) ==
  [apiKey |-> items.api_key,
   model |-> IF items.model # <<>> THEN items.model ELSE DefaultModel,
   language |-> items.language,
   format |-> IF items.format # "" THEN items.format ELSE "markdown"]

NoSettings == [apiKey |-> <<>>, model |-> <<>>, language |-> <<>>, format |-> ""]

\* { markdown: ".md", text: ".txt", json: ".json" }[format] || ".md"
ExtOf(format) ==
  CASE format = "markdown" -> <<".", "m", "d">>
    [] format = "text" -> <<".", "t", "x", "t">>
    [] format = "json" -> <<".", "j", "s", "o", "n">>
    [] OTHER -> <<".", "m", "d">>

\* the MIME type downloadContent gives the blob
MimeOf(format) ==
  CASE format = "markdown" -> "text/markdown"
    [] format = "text" -> "text/plain"
    [] format = "json" -> "application/json"
    [] OTHER -> "text/markdown"

NameChars ==
  {"a", "b", "c", "d", "e", "f", "g", "h", "i", "j", "k", "l", "m", "n", "o", "p",
   "q", "r", "s", "t", "u", "v", "w", "x", "y", "z",
   "A", "B", "C", "D", "E", "F", "G", "H", "I", "J", "K", "L", "M", "N", "O", "P",
   "Q", "R", "S", "T", "U", "V", "W", "X", "Y", "Z",
   "0", "1", "2", "3", "4", "5", "6", "7", "8", "9", "-"}

RECURSIVE DropOthers(_)
DropOthers(s) ==
  IF s # <<>> /\ Head(s) \notin NameChars THEN DropOthers(Tail(s)) ELSE s

\* name.replace(/[^a-z0-9\-]+/gi, "_")
RECURSIVE sanitizeFilename(_)
sanitizeFilename(name) ==
  IF name = <<>> THEN <<>>
  ELSE IF Head(name) \in NameChars
       THEN <<Head(name)>> \o sanitizeFilename(Tail(name))
       ELSE <<"_">> \o sanitizeFilename(DropOthers(Tail(name)))

\* the first position after from where s holds c, or 0
FirstAt(s, c, from) ==
  LET hits == {j \in from..Len(s) : s[j] = c}
  IN IF hits = {} THEN 0 ELSE Min(hits)

\* \[[^\]]*\]\([^)]*\) matched at position i of s: the position of its closing
\* parenthesis, or 0
LinkEnd(s, i) ==
  IF i > Len(s) \/ s[i] # "[" THEN 0
  ELSE LET j == FirstAt(s, "]", i + 1)
       IN IF j = 0 \/ j + 1 > Len(s) \/ s[j + 1] # "(" THEN 0
          ELSE FirstAt(s, ")", j + 2)

\* s.replace(/!\[[^\]]*\]\([^)]*\)/g, ""), from position i on
RECURSIVE StripImages(_, _)
StripImages(s, i) ==
  IF i > Len(s) THEN <<>>
  ELSE IF s[i] = "!" /\ LinkEnd(s, i + 1) # 0
       THEN StripImages(s, LinkEnd(s, i + 1) + 1)
       ELSE <<s[i]>> \o StripImages(s, i + 1)

\* s.replace(/\[[^\]]*\]\([^)]*\)/g, ""), from position i on
RECURSIVE StripLinks(_, _)
StripLinks(s, i) ==
  IF i > Len(s) THEN <<>>
  ELSE IF LinkEnd(s, i) # 0
       THEN StripLinks(s, LinkEnd(s, i) + 1)
       ELSE <<s[i]>> \o StripLinks(s, i + 1)

\* the grave accent, as a character of the modelled strings
GraveAccent == "<grave>"

MarkerChars == {GraveAccent, "*", "_", ">", "#", "-"}

IsNoMarker(c) == c \notin MarkerChars

\* markdownToText
markdownToText(md) ==
  SelectSeq(StripLinks(StripImages(md, 1), 1), IsNoMarker)

\* no text has been given to markdownToText
IdleText == [pieces |-> <<>>, input |-> <<>>, once |-> <<>>, twice |-> <<>>, step |-> 0]

(***************************************************************************)
(* sendMessageWithInjection(tabId, message).                               *)
(***************************************************************************)
IdleSend == [pc |-> "idle", type |-> "", sends |-> 0, injects |-> 0, result |-> NullResp]

SendCall(type) == [IdleSend EXCEPT !.pc = "send", !.type = type]

\* what a logged response writes
ResponseLeaves(resp) ==
  IF resp.kind = "object" THEN {resp.markdown} ELSE {<<resp.kind>>}

\* the first send: a listening content script answers; otherwise
\* chrome.runtime.lastError rejects the send and the script is to be injected
SmSend ==
  /\ sm.pc = "send"
  /\ \/ /\ cs = "listening"
        /\ \E ans \in Answers :
             /\ Ask(<<sm.type, 0>>, ans)
             /\ sm' = [sm EXCEPT !.pc = "done", !.sends = @ + 1, !.result = ans]
             /\ logged' = DebugLog({<<"sendMessage">>, <<sm.type>>, <<"sendMessage response">>}
                                   \cup ResponseLeaves(ans))
     \/ /\ cs # "listening"
        /\ sm' = [sm EXCEPT !.pc = "inject", !.sends = @ + 1]
        /\ logged' = DebugLog({<<"sendMessage">>, <<sm.type>>,
                               <<"Injecting content script into tab">>})
        /\ UNCHANGED oracle
  /\ UNCHANGED <<other, sw, dom, tx, debugEnabled, storage, net, cs, requests, fw, hd, ocr, pt, rt, op,
                 downloads, prev>>

\* chrome.scripting.executeScript: it throws on a page that takes no script,
\* and the call returns null; on a page where another action has put the
\* script in the meantime it adds a second listener with the same answers
SmInject ==
  /\ sm.pc = "inject"
  /\ \/ /\ cs = "blocked"
        /\ sm' = [sm EXCEPT !.pc = "done", !.injects = @ + 1, !.result = NullResp]
        /\ logged' = ErrorLog({<<"sendMessage failed after injection">>})
        /\ UNCHANGED cs
     \/ /\ cs \in {"absent", "mute", "listening"}
        /\ sm' = [sm EXCEPT !.pc = "resend", !.injects = @ + 1]
        /\ cs' = IF cs = "absent" THEN "listening" ELSE cs
        /\ UNCHANGED logged
  /\ UNCHANGED <<other, sw, dom, tx, debugEnabled, storage, net, requests, oracle, fw, hd, ocr, pt, rt, op,
                 downloads, prev>>

\* a variant that goes back to the injection when the second send fails
AfterFailedResendInjectsAgain(f) == [f EXCEPT !.pc = "inject", !.sends = @ + 1]

\* lines 146-148: the second send failed, null is returned
AfterFailedResend(f) == [f EXCEPT !.pc = "done", !.sends = @ + 1, !.result = NullResp]

\* the send after the injection: its failure is logged and null is returned
SmResend ==
  /\ sm.pc = "resend"
  /\ \/ /\ cs = "listening"
        /\ \E ans \in Answers :
             /\ Ask(<<sm.type, 0>>, ans)
             /\ sm' = [sm EXCEPT !.pc = "done", !.sends = @ + 1, !.result = ans]
             /\ logged' = DebugLog({<<"sendMessage response after injection">>}
                                   \cup ResponseLeaves(ans))
     \/ /\ cs # "listening"
        /\ sm' = AfterFailedResend(sm)
        /\ logged' = ErrorLog({<<"sendMessage failed after injection">>})
        /\ UNCHANGED oracle
  /\ UNCHANGED <<other, sw, dom, tx, debugEnabled, storage, net, cs, requests, fw, hd, ocr, pt, rt, op,
                 downloads, prev>>

(***************************************************************************)
(* fetchAndOCR(tab, settings).                                             *)
(***************************************************************************)
OcrUrl == "https://api.mistral.ai/v1/ocr"

ModelsUrl == "https://api.mistral.ai/v1/models"

TabUrl == "tab.url"

IdleOcr == [pc |-> "idle", settings |-> NoSettings, result |-> <<>>]

\* the frame once fetch(tab.url) is under way
OcrCall(settings) == [IdleOcr EXCEPT !.pc = "tabFetch", !.settings = settings]

Page(markdown, text) == [markdown |-> markdown, text |-> text]

Data(isArray, pages, text, markdown) ==
  [isArray |-> isArray, pages |-> pages, text |-> text, markdown |-> markdown]

\* a body JSON.parse rejects
Garbage == [isArray |-> FALSE, pages |-> <<>>, text |-> <<"<garbage>">>, markdown |-> <<>>]

\* the parsed bodies the OCR service answers with
DataSet ==
  {Data(TRUE, <<Page(<<"a">>, <<>>)>>, <<>>, <<>>),
   Data(TRUE, <<Page(<<"a">>, <<>>), Page(<<>>, <<"#">>)>>, <<"a">>, <<>>),
   Data(TRUE, <<Page(<<>>, <<>>), Page(<<>>, <<>>)>>, <<"a">>, <<>>),
   Data(TRUE, <<>>, <<>>, <<"a">>),
   Data(FALSE, <<>>, <<" ">>, <<>>),
   Data(FALSE, <<>>, <<>>, <<>>)}

\* p.markdown || p.text || ""
PageText(p) == IF p.markdown # <<>> THEN p.markdown ELSE p.text

\* pages.map(...).join("\n\n")
RECURSIVE JoinPages(_)
JoinPages(pages) ==
  IF pages = <<>> THEN <<>>
  ELSE IF Len(pages) = 1 THEN PageText(pages[1])
  ELSE PageText(pages[1]) \o <<"\n", "\n">> \o JoinPages(Tail(pages))

\* lines 217-225: the joined pages, or else the flat field
OcrText(data) ==
  LET joined == IF data.isArray THEN JoinPages(data.pages) ELSE <<>>
  IN IF joined # <<>> THEN joined
     ELSE IF data.text # <<>> THEN data.text ELSE data.markdown

\* the strings the JSON body of the OCR request carries
OcrBody(settings, blobType) ==
  {<<"data:", blobType, ";base64">>,
   IF settings.model # <<>> THEN settings.model ELSE DefaultModel}
    \cup (IF settings.language # <<>> THEN {settings.language} ELSE {})

\* how fetch(tab.url) ends: it rejects, it never settles, or it gives a blob
\* of that type
TabFetches == {"fail", "stalled", "image/png", "application/pdf"}

\* the tab's resource arrives and the OCR request is built, logged with
\* scrubbed headers and handed to fetchWithRetry; a failed fetch of the
\* resource is caught and yields ""
OcrTabFetched ==
  /\ ocr.pc = "tabFetch"
  /\ \E blob \in TabFetches :
       /\ Ask(<<TabUrl, 0>>, blob)
       /\ IF blob = "fail"
          THEN /\ ocr' = [ocr EXCEPT !.pc = "done", !.result = <<>>]
               /\ logged' = ErrorLog({<<"OCR request failed">>})
               /\ UNCHANGED fw
          ELSE IF blob = "stalled"
          THEN /\ ocr' = [ocr EXCEPT !.pc = "tabStalled"]
               /\ UNCHANGED <<logged, fw>>
          ELSE LET built == ("Content-Type" :> JsonType)
                              @@ buildAuthHeaders(ocr.settings.apiKey, TRUE)
                   sc == scrubHeaders(built)
                   body == OcrBody(ocr.settings, blob)
               IN /\ logged' = DebugLog({<<"OCR request">>, <<OcrUrl>>, <<"<omitted>">>}
                                        \cup HeaderValues(sc.clean)
                                        \cup (body \ {<<"data:", blob, ";base64">>}))
                  /\ fw' = FetchCall(OcrUrl, Options("POST", sc.headers, body, OcrTimeout),
                                     OcrRetries, DefaultBackoff)
                  /\ ocr' = [ocr EXCEPT !.pc = "fetching"]
  /\ UNCHANGED <<other, sw, dom, tx, debugEnabled, storage, net, cs, requests, hd, sm, pt, rt, op, downloads,
                 prev>>

\* fetchWithRetry returned: the body is read and parsed; a failed read, an
\* unsuccessful status and an unparseable body yield ""
OcrReturned ==
  /\ ocr.pc = "fetching"
  /\ fw.pc = "returned"
  /\ \E read \in {"text", "error"}, data \in DataSet \cup {Garbage} :
       /\ (fw.result.bodyRead # "none" => read = fw.result.bodyRead)
       /\ Ask(<<"ocrResp.text", 0>>, [read |-> read, data |-> data])
       /\ IF read = "error"
          THEN /\ data = Garbage
               /\ ocr' = [ocr EXCEPT !.pc = "done", !.result = <<>>]
               /\ logged' = ErrorLog({<<"OCR request failed">>})
          ELSE IF ~Ok(fw.result.status)
          THEN /\ data = Garbage
               /\ ocr' = [ocr EXCEPT !.pc = "done", !.result = <<>>]
               /\ logged' = DebugLog({<<"OCR response raw">>, <<"response body">>})
          ELSE IF data = Garbage
          THEN /\ ocr' = [ocr EXCEPT !.pc = "done", !.result = <<>>]
               /\ logged' = DebugLog({<<"OCR response raw">>, <<"response body">>})
                              \cup {<<"Failed to parse OCR response">>}
          ELSE /\ ocr' = [ocr EXCEPT !.pc = "done", !.result = OcrText(data)]
               /\ logged' = DebugLog({<<"OCR response raw">>, <<"response body">>,
                                      <<"OCR result">>, OcrText(data)})
  /\ UNCHANGED <<other, sw, dom, tx, debugEnabled, storage, net, cs, requests, fw, hd, sm, pt, rt, op,
                 downloads, prev>>

\* fetchWithRetry threw: the error is caught and logged
OcrThrown ==
  /\ ocr.pc = "fetching"
  /\ fw.pc = "thrown"
  /\ ocr' = [ocr EXCEPT !.pc = "done", !.result = <<>>]
  /\ logged' = ErrorLog({<<"OCR request failed">>, <<fw.result.kind>>})
  /\ UNCHANGED <<other, sw, dom, tx, debugEnabled, storage, net, cs, requests, oracle, fw, hd, sm, pt, rt, op,
                 downloads, prev>>

(***************************************************************************)
(* processTab(tab, preferSelection).                                       *)
(***************************************************************************)
IdleTab ==
  [pc |-> "idle", tab |-> NoTab, preferSelection |-> FALSE, settings |-> NoSettings,
   filename |-> <<>>, selection |-> NullResp, response |-> NullResp,
   content |-> <<>>, ocrCalls |-> 0, result |-> FALSE, asked |-> <<>>]

\* the frame at the entry of processTab
TabCall(tab, preferSelection) ==
  [IdleTab EXCEPT !.pc = "settings", !.tab = tab, !.preferSelection = preferSelection]

\* a variant that asks for the page whatever the selection gave
SelectionAlwaysFallsThrough(resp) == TRUE

\* a variant that keeps whatever the selection gave
SelectionNeverFallsThrough(resp) == FALSE

\* !response || !response.markdown || !response.markdown.trim(), for a response
\* whose markdown is a string or is missing
SelectionFallsThrough(resp) ==
  resp.kind \in {"null", "undefined"} \/ Blank(resp.markdown)

\* a variant that never asks for OCR
NeedsOcrNever(resp) == FALSE

\* a variant that asks for OCR whatever the extraction gave
NeedsOcrAlways(resp) == TRUE

\* !content || !content.trim(), for content = response && response.markdown
NeedsOcr(resp) ==
  resp.kind \in {"null", "undefined"} \/ Blank(resp.markdown)

\* a variant without the default name
TitleOnly(tab) == tab.title

\* tab.title || "page"
TitleOrPage(tab) == IF tab.title # <<>> THEN tab.title ELSE <<"p", "a", "g", "e">>

\* getSettings is awaited, the file name is derived and the first request is
\* sent to the content script
PtBegin ==
  /\ pt.pc = "settings"
  /\ LET settings == getSettings(storage)
     IN pt' = [pt EXCEPT !.pc = IF pt.preferSelection THEN "selection" ELSE "page",
                         !.settings = settings,
                         !.asked = <<IF pt.preferSelection THEN "getSelection" ELSE "getPage">>,
                         !.filename = sanitizeFilename(TitleOrPage(pt.tab))
                                        \o ExtOf(settings.format)]
  /\ sm' = SendCall(IF pt.preferSelection THEN "getSelection" ELSE "getPage")
  /\ UNCHANGED <<other, sw, dom, tx, debugEnabled, storage, net, cs, logged, requests, oracle, fw, hd, ocr, rt,
                 op, downloads, prev>>

\* the catch clause of processTab, then return false
PtCaught(p) ==
  /\ pt' = [p EXCEPT !.pc = "done", !.result = FALSE]
  /\ logged' = ErrorLog({<<"Processing tab failed">>})
  /\ UNCHANGED <<ocr, requests, downloads>>

\* a variant that looks the format up in the storage when it is needed
FormatStored(p) == getSettings(storage).format

\* a variant that converts whatever the format is
FormatAlwaysText(p) == "text"

\* settings.format, of the settings read at line 267
FormatInUse(p) == p.settings.format

\* lines 286-293, for content that is a string: the conversion to plain text,
\* then the download of content that is not blank, or return false
PtConvert(p, content) ==
  LET out == IF FormatInUse(p) = "text" /\ content # <<>>
             THEN markdownToText(content) ELSE content
  IN IF ~Blank(out)
     THEN /\ pt' = [p EXCEPT !.pc = "download", !.content = out]
          /\ downloads' = Append(downloads,
               [content |-> out, filename |-> p.filename, mime |-> MimeOf(FormatInUse(p))])
     ELSE /\ pt' = [p EXCEPT !.pc = "done", !.content = out, !.result = FALSE]
          /\ UNCHANGED downloads

\* a variant that saves what the extraction gave before it asks for OCR
PtContentSavesFirst(p, resp) ==
  IF resp.kind = "nonstring"
  THEN PtCaught([p EXCEPT !.response = resp])
  ELSE IF NeedsOcr(resp)
  THEN /\ pt' = [p EXCEPT !.pc = "ocr", !.response = resp, !.ocrCalls = @ + 1]
       /\ downloads' = Append(downloads,
            [content |-> resp.markdown, filename |-> p.filename,
             mime |-> MimeOf(FormatInUse(p))])
       /\ ocr' = OcrCall(p.settings)
       /\ UNCHANGED <<logged, requests>>
  ELSE /\ PtConvert([p EXCEPT !.response = resp], resp.markdown)
       /\ UNCHANGED <<logged, ocr, requests>>

\* lines 281-285 with the response of the extraction: a markdown that is no
\* string makes trim throw; blank content starts fetchAndOCR, which logs the
\* tab's URL and fetches it; other content is converted
PtContent(p, resp) ==
  IF resp.kind = "nonstring"
  THEN PtCaught([p EXCEPT !.response = resp])
  ELSE IF NeedsOcr(resp)
  THEN /\ pt' = [p EXCEPT !.pc = "ocr", !.response = resp, !.ocrCalls = @ + 1]
       /\ logged' = DebugLog({<<"Falling back to OCR for tab">>, <<"Fetching tab for OCR">>,
                              <<TabUrl>>})
       /\ ocr' = OcrCall(p.settings)
       /\ requests' = requests \cup {[url |-> TabUrl, headers |-> NoHeaders, body |-> NoBody]}
       /\ UNCHANGED downloads
  ELSE /\ PtConvert([p EXCEPT !.response = resp], resp.markdown)
       /\ UNCHANGED <<logged, ocr, requests>>

\* the answer to getSelection: a blank one makes processTab ask for the page
PtSelectionAnswered ==
  /\ pt.pc = "selection"
  /\ sm.pc = "done"
  /\ LET p == [pt EXCEPT !.selection = sm.result]
     IN IF sm.result.kind = "nonstring"
        THEN PtCaught(p) /\ UNCHANGED sm
        ELSE IF SelectionFallsThrough(sm.result)
        THEN /\ pt' = [p EXCEPT !.pc = "page", !.asked = Append(@, "getPage")]
             /\ sm' = SendCall("getPage")
             /\ UNCHANGED <<logged, ocr, requests, downloads>>
        ELSE PtContent(p, sm.result) /\ UNCHANGED sm
  /\ UNCHANGED <<other, sw, dom, tx, debugEnabled, storage, net, cs, oracle, fw, hd, rt, op, prev>>

\* the answer to getPage
PtPageAnswered ==
  /\ pt.pc = "page"
  /\ sm.pc = "done"
  /\ PtContent(pt, sm.result)
  /\ UNCHANGED <<other, sw, dom, tx, debugEnabled, storage, net, cs, oracle, fw, hd, sm, rt, op, prev>>

\* fetchAndOCR returned its text
PtOcrReturned ==
  /\ pt.pc = "ocr"
  /\ ocr.pc = "done"
  /\ PtConvert(pt, ocr.result)
  /\ UNCHANGED <<other, sw, dom, tx, debugEnabled, storage, net, cs, logged, requests, oracle, fw, hd, sm, ocr,
                 rt, op, prev>>

\* the callback of chrome.downloads.download: processTab returns !!id
PtDownloaded ==
  /\ pt.pc = "download"
  /\ \E ok \in BOOLEAN :
       /\ Ask(<<"download", 0>>, ok)
       /\ pt' = [pt EXCEPT !.pc = "done", !.result = ok]
  /\ logged' = DebugLog({<<"downloadContent result">>, pt.filename, <<pt.settings.format>>})
  /\ UNCHANGED <<other, sw, dom, tx, debugEnabled, storage, net, cs, requests, fw, hd, sm, ocr, rt, op,
                 downloads, prev>>

(***************************************************************************)
(* runTests().                                                             *)
(***************************************************************************)
IdleTests ==
  [pc |-> "idle", apiKey |-> <<>>, apiKeyOk |-> FALSE, contentOk |-> FALSE,
   apiReachable |-> FALSE, apiAuthorized |-> FALSE, modelsListed |-> FALSE,
   details |-> <<>>, passed |-> FALSE]

\* apiKey ? apiKey.slice(0, 4) + "..." : "missing"
KeyPreview(apiKey) ==
  IF apiKey # <<>>
  THEN SubSeq(apiKey, 1, IF Len(apiKey) < KeyPreviewLen THEN Len(apiKey) ELSE KeyPreviewLen)
         \o <<".", ".", ".">>
  ELSE <<"missing">>

\* the bodies the models endpoint answers a 200 with: unparseable, an empty
\* list, a list of models
ModelLists == {"garbage", "empty", "listed"}

\* lines 397-404: the verdict is computed and logged
RtVerdict(r) ==
  [r EXCEPT !.pc = "done",
            !.passed = r.apiKeyOk /\ r.contentOk /\ r.apiReachable /\ r.apiAuthorized
                         /\ r.modelsListed]

\* the answer of the content script to the self-test's getPage
RtContentAnswered ==
  /\ rt.pc = "content"
  /\ sm.pc = "done"
  /\ rt' = [rt EXCEPT
       !.pc = "api",
       !.contentOk = sm.result.kind = "object",
       !.details = Append(@,
          CASE sm.result.kind = "object" /\ sm.result.markdown # <<>> -> "Content script accessible"
            [] sm.result.kind = "object" /\ sm.result.markdown = <<>> -> "Content script returned empty"
            [] sm.result.kind = "null" -> "Content script unreachable"
            [] OTHER -> "Invalid content script response")]
  /\ logged' = DebugLog({<<"runTests: content script response">>} \cup ResponseLeaves(sm.result))
  /\ UNCHANGED <<other, sw, dom, tx, debugEnabled, storage, net, cs, requests, oracle, fw, hd, sm, ocr, pt, op,
                 downloads, prev>>

\* the request to the models endpoint is built, logged with scrubbed headers
\* and handed to fetchWithRetry
RtApi ==
  /\ rt.pc = "api"
  /\ LET sc == scrubHeaders(buildAuthHeaders(rt.apiKey, TRUE))
     IN /\ logged' = Log({<<"runTests: Mistral API request">>, <<ModelsUrl>>, <<"GET">>}
                         \cup HeaderValues(sc.clean))
        /\ fw' = FetchCall(ModelsUrl, Options("GET", sc.headers, NoBody, DefaultTimeout),
                           TestRetries, DefaultBackoff)
  /\ rt' = [rt EXCEPT
       !.pc = "fetching",
       !.details = @ \o <<IF rt.apiKey # <<>> THEN "API request headers set"
                          ELSE "API request missing key headers",
                          "Using API endpoint">>]
  /\ UNCHANGED <<other, sw, dom, tx, debugEnabled, storage, net, cs, requests, oracle, hd, sm, ocr, pt, op,
                 downloads, prev>>

\* fetchWithRetry returned: the body is read, with no deadline left, and the
\* status judged
RtApiReturned ==
  /\ rt.pc = "fetching"
  /\ fw.pc = "returned"
  /\ \E read \in BodyReads, list \in ModelLists :
       LET status == fw.result.status
           reached == [rt EXCEPT !.apiReachable = TRUE,
                                 !.details = Append(@, "Mistral API reachable")]
       IN /\ (fw.result.bodyRead # "none" => read = fw.result.bodyRead)
          /\ (read # "text" \/ status # 200 => list = "garbage")
          /\ Ask(<<"resp.text", 0>>, [read |-> read, list |-> list])
          /\ IF read = "stalled"
             THEN /\ rt' = [reached EXCEPT !.pc = "bodyStalled"]
                  /\ UNCHANGED logged
             ELSE IF read = "error"
             THEN /\ rt' = RtVerdict([reached EXCEPT
                       !.details = Append(@, "Mistral API unreachable")])
                  /\ logged' = Log({<<"Mistral API request failed">>, <<"runTests: results">>})
             ELSE /\ rt' = RtVerdict([reached EXCEPT
                       !.apiAuthorized = status = 200,
                       !.modelsListed = status = 200 /\ list = "listed",
                       !.details = @ \o
                          (CASE status = 200 /\ list = "listed" ->
                                  <<"Mistral API authorized", "Models listed">>
                             [] status = 200 /\ list = "empty" ->
                                  <<"Mistral API authorized", "Mistral API returned no models">>
                             [] status = 200 /\ list = "garbage" ->
                                  <<"Mistral API authorized", "Failed to parse models list">>
                             [] status \in {401, 403} -> <<"Mistral API unauthorized">>
                             [] OTHER -> <<"Mistral API error">>)])
                  /\ logged' = Log({<<"runTests: Mistral API response">>, <<"response body">>,
                                    <<"runTests: results">>}
                                   \cup (CASE status = 200 /\ list = "garbage" ->
                                                {<<"Parsing models list failed">>}
                                           [] status \in {401, 403} ->
                                                {<<"Mistral API unauthorized">>}
                                           [] status = 200 -> {}
                                           [] OTHER -> {<<"Mistral API error">>}))
  /\ UNCHANGED <<other, sw, dom, tx, debugEnabled, storage, net, cs, requests, fw, hd, sm, ocr, pt, op,
                 downloads, prev>>

\* fetchWithRetry threw
RtApiThrown ==
  /\ rt.pc = "fetching"
  /\ fw.pc = "thrown"
  /\ rt' = RtVerdict([rt EXCEPT !.details = Append(@, "Mistral API unreachable")])
  /\ logged' = Log({<<"Mistral API request failed">>, <<fw.result.kind>>,
                    <<"runTests: results">>})
  /\ UNCHANGED <<other, sw, dom, tx, debugEnabled, storage, net, cs, requests, oracle, fw, hd, sm, ocr, pt, op,
                 downloads, prev>>

(***************************************************************************)
(* The listeners.                                                          *)
(***************************************************************************)
IdleOp == [kind |-> "none", pc |-> "idle", ok |-> FALSE, answers |-> 0, details |-> <<>>]

NoPrev == [ran |-> FALSE, selection |-> NullResp, result |-> FALSE, downloads |-> <<>>]

Tabs == {Tab(t) : t \in Titles}

\* the tabs a context-menu click comes with
ClickedTabs == {Tab(<<"M", "y", " ", "/", "d", "-", "1">>), NoTab}

\* runtime.onMessage, saveTab: the active tab is processed with
\* preferSelection = true; without an active tab the answer is {ok: false}
OnSaveTab ==
  /\ op.pc = "idle"
  /\ \E tab \in Tabs \cup {NoTab} :
       IF tab.present
       THEN /\ pt' = TabCall(tab, TRUE)
            /\ op' = [op EXCEPT !.kind = "saveTab", !.pc = "running"]
            /\ logged' = Log({<<"onMessage received">>, <<"saveTab">>})
       ELSE /\ op' = [op EXCEPT !.kind = "saveTab", !.pc = "responded", !.ok = FALSE,
                                !.answers = @ + 1]
            /\ logged' = DebugLog({<<"saveTab response">>})
                           \cup {<<"onMessage received">>, <<"saveTab">>}
            /\ UNCHANGED pt
  /\ UNCHANGED <<other, sw, dom, tx, debugEnabled, storage, net, cs, requests, oracle, fw, hd, sm, ocr, rt,
                 downloads, prev>>

\* sendResponse({ ok }) once processTab has returned
SaveTabRespond ==
  /\ op.kind = "saveTab"
  /\ op.pc = "running"
  /\ pt.pc = "done"
  /\ op' = [op EXCEPT !.pc = "responded", !.ok = pt.result, !.answers = @ + 1]
  /\ logged' = DebugLog({<<"saveTab response">>})
  /\ UNCHANGED <<other, sw, dom, tx, debugEnabled, storage, net, cs, requests, oracle, fw, hd, sm, ocr, pt, rt,
                 downloads, prev>>

\* contextMenus.onClicked: save_selection prefers the selection, save_page
\* does not; a click without a tab is dropped
OnContextMenu ==
  /\ op.pc = "idle"
  /\ \E item \in {"save_page", "save_selection"}, tab \in ClickedTabs :
       IF tab.present
       THEN /\ pt' = TabCall(tab, item = "save_selection")
            /\ op' = [op EXCEPT !.kind = item, !.pc = "running"]
       ELSE /\ op' = [op EXCEPT !.kind = item, !.pc = "dropped"]
            /\ UNCHANGED pt
  /\ UNCHANGED <<other, sw, dom, tx, debugEnabled, storage, net, cs, logged, requests, oracle, fw, hd, sm, ocr,
                 rt, downloads, prev>>

\* the first action, in selection mode, is over
SelectionActionOver ==
  /\ pt.pc = "done"
  /\ pt.preferSelection
  /\ op.kind = "saveTab" => op.pc = "responded"

\* a click on save_page for the same tab, once an action in selection mode is
\* over: what that action did is kept in prev
OnSavePageAfterwards ==
  /\ ~prev.ran
  /\ SelectionActionOver
  /\ prev' = [ran |-> TRUE, selection |-> pt.selection, result |-> pt.result,
              downloads |-> downloads]
  /\ pt' = TabCall(pt.tab, FALSE)
  /\ op' = [IdleOp EXCEPT !.kind = "save_page", !.pc = "running"]
  /\ downloads' = <<>>
  /\ sm' = IdleSend
  /\ ocr' = IdleOcr
  /\ fw' = IdleFetch
  /\ UNCHANGED <<other, sw, dom, tx, debugEnabled, storage, net, cs, logged, requests, oracle, hd, rt>>

\* what chrome.storage.local.get calls back with: the stored items, or
\* nothing when the read failed
StorageReads == {"items", "undefined"}

\* runtime.onMessage, runTests: the start of runTests, up to the request to
\* the content script; with nothing read from storage items.api_key throws
\* inside getSettings, outside every try of runTests
OnRunTests ==
  /\ op.pc = "idle"
  /\ op' = [op EXCEPT !.kind = "runTests", !.pc = "running"]
  /\ LET apiKey == getSettings(storage).apiKey
         r == [IdleTests EXCEPT
                 !.apiKey = apiKey,
                 !.apiKeyOk = apiKey # <<>>,
                 !.details = <<IF apiKey # <<>> THEN "API key set" ELSE "API key missing">>]
     IN \E read \in StorageReads :
          IF read = "undefined"
          THEN /\ logged' = Log({<<"onMessage received">>, <<"runTests">>,
                                 <<"runTests: start">>})
               /\ rt' = [IdleTests EXCEPT !.pc = "thrown"]
               /\ UNCHANGED sm
          ELSE /\ logged' = Log({<<"onMessage received">>, <<"runTests">>,
                                 <<"runTests: start">>, <<"runTests: api key">>,
                                 KeyPreview(apiKey),
                                 <<"runTests: checking content script">>})
               /\ \E tab \in {NoTab, Tab(<<>>)} :
                    IF tab.present
                    THEN /\ rt' = [r EXCEPT !.pc = "content"]
                         /\ sm' = SendCall("getPage")
                    ELSE /\ rt' = [r EXCEPT !.pc = "api",
                                            !.details = Append(@, "No active tab")]
                         /\ UNCHANGED sm
  /\ UNCHANGED <<other, sw, dom, tx, debugEnabled, storage, net, cs, requests, oracle, fw, hd, ocr, pt,
                 downloads, prev>>

\* sendResponse(res) once runTests has resolved
RunTestsRespond ==
  /\ op.kind = "runTests"
  /\ op.pc = "running"
  /\ rt.pc = "done"
  /\ op' = [op EXCEPT !.pc = "responded", !.ok = rt.passed, !.answers = @ + 1,
                       !.details = rt.details]
  /\ logged' = DebugLog({<<"runTests response">>})
  /\ UNCHANGED <<other, sw, dom, tx, debugEnabled, storage, net, cs, requests, oracle, fw, hd, sm, ocr, pt, rt,
                 downloads, prev>>

\* the catch of the listener once runTests has rejected:
\* sendResponse({ passed: false, details: ["Exception: " + e.message] })
RunTestsCatch ==
  /\ op.kind = "runTests"
  /\ op.pc = "running"
  /\ rt.pc = "thrown"
  /\ op' = [op EXCEPT !.pc = "responded", !.ok = FALSE, !.answers = @ + 1,
                       !.details = <<"Exception">>]
  /\ logged' = Log({<<"runTests failed">>})
  /\ UNCHANGED <<other, sw, dom, tx, debugEnabled, storage, net, cs, requests, oracle, fw, hd, sm, ocr, pt, rt,
                 downloads, prev>>

(***************************************************************************)
(* The worker: one user action, and a later save_page on the same tab.     *)
(***************************************************************************)
StoredFormats == {"", "text", "json", "html"}

\* every sample key with the default format, every format with one key, and
\* one setting with a model and a language of its own
StoredSettings ==
  {[api_key |-> k, model |-> <<>>, language |-> <<>>, format |-> ""] : k \in SampleKeys}
  \cup {[api_key |-> <<"k", "9">>, model |-> <<>>, language |-> <<>>, format |-> f] :
          f \in StoredFormats}
  \cup {[api_key |-> <<"k", "9", " ", "9", "k">>, model |-> <<"pixtral">>,
          language |-> <<"e", "n">>, format |-> "markdown"]}

IdleHeaders ==
  [key |-> <<>>, before |-> NoHeaders, headers |-> NoHeaders, clean |-> NoHeaders,
   done |-> FALSE]

(***************************************************************************)
(* The content script, content.js.  A node of the page is a record: a text  *)
(* node, a comment, an element with its children, or the document.  An      *)
(* attribute is present with a value or absent.                             *)
(***************************************************************************)

\* how many children an element of the sample trees has
MaxChildren == 2

NoAttr == [has |-> FALSE, value |-> <<>>]

Attr(value) == [has |-> TRUE, value |-> value]

TextNode(text) ==
  [type |-> "text", tag |-> "", text |-> text, href |-> NoAttr, alt |-> NoAttr,
   src |-> NoAttr, kids |-> <<>>]

CommentNode == [TextNode(<<"c">>) EXCEPT !.type = "comment"]

Elem(tag, kids) ==
  [type |-> "element", tag |-> tag, text |-> <<>>, href |-> NoAttr, alt |-> NoAttr,
   src |-> NoAttr, kids |-> kids]

Link(href, kids) == [Elem("a", kids) EXCEPT !.href = href]

Image(alt, src) == [Elem("img", <<>>) EXCEPT !.alt = alt, !.src = src]

\* a variant that writes a missing attribute as the template literal would
AttrAsWritten(attr) == IF attr.has THEN attr.value ELSE <<"null">>

\* node.getAttribute(name) || ""
AttrOrEmpty(attr) == IF attr.has THEN attr.value ELSE <<>>

\* a variant with one mark for every heading
HeadingMarkFlat(level) == <<"#", " ">>

\* "# ", "## ", "### "
HeadingMark(level) == [i \in 1..level |-> "#"] \o <<" ">>

RECURSIVE nodeToMarkdown(_)
RECURSIVE JoinKids(_)

\* Array.from(node.childNodes).map(nodeToMarkdown).join("")
JoinKids(kids) ==
  IF kids = <<>> THEN <<>> ELSE nodeToMarkdown(Head(kids)) \o JoinKids(Tail(kids))

\* nodeToMarkdown(node), lines 9-47
nodeToMarkdown(node) ==
  IF node.type = "text" THEN node.text
  ELSE IF node.type # "element" THEN <<>>
  ELSE LET tag == node.tag
           content == JoinKids(node.kids)
       IN CASE tag = "h1" -> HeadingMark(1) \o content \o <<"\n", "\n">>
            [] tag = "h2" -> HeadingMark(2) \o content \o <<"\n", "\n">>
            [] tag = "h3" -> HeadingMark(3) \o content \o <<"\n", "\n">>
            [] tag \in {"strong", "b"} -> <<"*", "*">> \o content \o <<"*", "*">>
            [] tag \in {"em", "i"} -> <<"*">> \o content \o <<"*">>
            [] tag = "p" -> content \o <<"\n", "\n">>
            [] tag = "br" -> <<"\n">>
            [] tag = "li" -> <<"-", " ">> \o content \o <<"\n">>
            [] tag \in {"ul", "ol"} -> <<"\n">> \o content \o <<"\n">>
            [] tag = "a" -> <<"[">> \o content \o <<"]", "(">> \o AttrOrEmpty(node.href)
                              \o <<")">>
            [] tag = "img" -> <<"!", "[">> \o AttrOrEmpty(node.alt) \o <<"]", "(">>
                                \o AttrOrEmpty(node.src) \o <<")">>
            [] OTHER -> content

\* the selectors cleanDocument removes
Boilerplate == {"header", "nav", "footer", "script", "style", "aside", "iframe", "noscript"}

\* the children without the boilerplate elements, at every depth
RECURSIVE Strip(_)
Strip(kids) ==
  IF kids = <<>> THEN <<>>
  ELSE LET k == Head(kids)
       IN IF k.type = "element" /\ k.tag \in Boilerplate
          THEN Strip(Tail(kids))
          ELSE <<[k EXCEPT !.kids = Strip(k.kids)]>> \o Strip(Tail(kids))

\* cleanDocument(doc): what doc is after the removals
cleanDocument(doc) == [doc EXCEPT !.kids = Strip(doc.kids)]

\* a variant that strips the document it is given
StripInPlace(document) ==
  [live |-> cleanDocument(document), stripped |-> cleanDocument(document)]

\* document.cloneNode(true), then cleanDocument(docClone): the live document
\* and the stripped clone
StripOnClone(document) == [live |-> document, stripped |-> cleanDocument(document)]

\* querySelector("main"): the first main element in document order, if any
RECURSIVE FirstMain(_)
FirstMain(kids) ==
  IF kids = <<>> THEN <<>>
  ELSE LET k == Head(kids)
       IN IF k.type = "element" /\ k.tag = "main" THEN <<k>>
          ELSE IF FirstMain(k.kids) # <<>> THEN FirstMain(k.kids)
          ELSE FirstMain(Tail(kids))

\* a document: html with a head and with a body that holds the page
Document(page) ==
  [Elem("", <<Elem("html", <<Elem("head", <<>>), Elem("body", page)>>)>>)
     EXCEPT !.type = "document"]

\* docClone.body
BodyOf(document) == document.kids[1].kids[2]

\* div.innerHTML = html, for the markup of these nodes: adjacent text nodes
\* come back as one, empty text nodes do not come back, br and img come
\* back without children
RECURSIVE Reparsed(_)
Reparsed(kids) ==
  IF kids = <<>> THEN <<>>
  ELSE LET k == Head(kids)
           rest == Reparsed(Tail(kids))
       IN IF k.type = "text"
          THEN IF k.text = <<>> THEN rest
               ELSE IF rest # <<>> /\ Head(rest).type = "text"
               THEN <<TextNode(k.text \o Head(rest).text)>> \o Tail(rest)
               ELSE <<k>> \o rest
          ELSE IF k.type = "element"
          THEN <<[k EXCEPT !.kids = IF k.tag \in {"br", "img"} THEN <<>>
                                   ELSE Reparsed(@)]>> \o rest
          ELSE <<k>> \o rest

\* htmlToMarkdown(html), for the markup of these nodes
htmlToMarkdown(html) == nodeToMarkdown(Elem("div", Reparsed(html)))

\* getPageMarkdown(): the document afterwards and the markdown
getPageMarkdown(document) ==
  LET c == StripOnClone(document)
      main == FirstMain(c.stripped.kids)
      target == IF main # <<>> THEN main[1] ELSE BodyOf(c.stripped)
  IN [document |-> c.live, markdown |-> htmlToMarkdown(target.kids)]

NoSelection == [present |-> FALSE, from |-> 0, to |-> 0]

\* the selection covers the children from..to of the body
Selection(from, to) == [present |-> TRUE, from |-> from, to |-> to]

\* getSelectionMarkdown(): the document and the selection afterwards and the
\* markdown; range.cloneContents() copies the selected nodes, as far as the
\* body still holds them
getSelectionMarkdown(document, selection) ==
  [document |-> document, selection |-> selection,
   markdown |-> IF ~selection.present THEN <<>>
                ELSE htmlToMarkdown(SubSeq(BodyOf(document).kids, selection.from,
                                           Min({selection.to,
                                                Len(BodyOf(document).kids)})))]

\* no page
IdleDom ==
  [mode |-> "idle", node |-> TextNode(<<>>), out |-> <<>>, done |-> FALSE,
   live |-> Document(<<>>), selection |-> NoSelection,
   before |-> Document(<<>>), selectionBefore |-> NoSelection, replies |-> <<>>]

\* no second action
IdleOther ==
  [pt |-> IdleTab, sm |-> IdleSend, ocr |-> IdleOcr, fw |-> IdleFetch, downloads |-> <<>>,
   active |-> 0, cs |-> "", before |-> NoSettings, readBefore |-> {}, written |-> FALSE]

\* the worker's start-up is not under study
IdleWorker ==
  [stored |-> FALSE, load |-> "delivered", loadValue |-> FALSE, events |-> <<>>, writes |-> 0]

Init ==
  /\ debugEnabled \in BOOLEAN
  /\ storage \in StoredSettings
  /\ net = [steady |-> TRUE, statuses |-> ServiceStatuses]
  /\ cs \in {"listening", "absent", "blocked", "mute"}
  /\ logged = {}
  /\ requests = {}
  /\ oracle = NoAnswers
  /\ fw = IdleFetch
  /\ hd = IdleHeaders
  /\ sm = IdleSend
  /\ ocr = IdleOcr
  /\ pt = IdleTab
  /\ rt = IdleTests
  /\ op = IdleOp
  /\ downloads = <<>>
  /\ prev = NoPrev
  /\ other = IdleOther
  /\ sw = IdleWorker
  /\ dom = IdleDom
  /\ tx = IdleText

Next ==
  \/ OnSaveTab \/ OnContextMenu \/ OnRunTests \/ OnSavePageAfterwards
  \/ SaveTabRespond \/ RunTestsRespond \/ RunTestsCatch
  \/ PtBegin \/ PtSelectionAnswered \/ PtPageAnswered \/ PtOcrReturned \/ PtDownloaded
  \/ SmSend \/ SmInject \/ SmResend
  \/ OcrTabFetched \/ OcrReturned \/ OcrThrown
  \/ RtContentAnswered \/ RtApi \/ RtApiReturned \/ RtApiThrown
  \/ FwLoop \/ FwNetError \/ FwTimeout \/ FwResponse \/ FwBodyRead

Spec == Init /\ [][Next]_vars

(***************************************************************************)
(* Direct calls of fetchWithRetry, with every retries and backoff.         *)
(***************************************************************************)
Backoffs == {DefaultBackoff, 100}

Timeouts == {0, OcrTimeout}

InitFetch ==
  /\ debugEnabled \in BOOLEAN
  /\ storage = [api_key |-> <<>>, model |-> <<>>, language |-> <<>>, format |-> ""]
  /\ net = [steady |-> FALSE, statuses |-> Statuses]
  /\ cs = "listening"
  /\ logged = {}
  /\ requests = {}
  /\ oracle = NoAnswers
  /\ hd = IdleHeaders
  /\ sm = IdleSend
  /\ ocr = IdleOcr
  /\ pt = IdleTab
  /\ rt = IdleTests
  /\ op = IdleOp
  /\ downloads = <<>>
  /\ prev = NoPrev
  /\ other = IdleOther
  /\ sw = IdleWorker
  /\ dom = IdleDom
  /\ tx = IdleText
  /\ \E retries \in 0..MaxRetries, backoff \in Backoffs, key \in SampleKeys,
        timeout \in Timeouts :
       fw = FetchCall(OcrUrl,
                      Options("POST", buildAuthHeaders(key, TRUE), NoBody, timeout),
                      retries, backoff)

NextFetch == FwLoop \/ FwNetError \/ FwTimeout \/ FwResponse \/ FwBodyRead

SpecFetch == InitFetch /\ [][NextFetch]_vars

(***************************************************************************)
(* Properties of fetchWithRetry, under SpecFetch.                          *)
(***************************************************************************)
IsError(o) == o.kind \in {"neterr", "timeout"}

IsServerError(o) == o.kind = "resp" /\ o.status >= 500

\* every attempt the call may make was made, and each one failed
AllAttemptsFailed ==
  /\ Len(fw.outcomes) = fw.retries + 1
  /\ \A i \in 1..Len(fw.outcomes) : IsError(fw.outcomes[i]) \/ IsServerError(fw.outcomes[i])

\* C1: against a target that answers every attempt with a status >= 500, a
\* finished call has called the target retries+1 times and has waited
\* backoff * 2^i after attempt i, for i = 0..retries-1, and not after the
\* last attempt: 3 calls and waits of 500 and 1000 for retries 2, backoff 500
C1_ServerErrorCallsAndWaits ==
  (FwDone /\ \A i \in 1..Len(fw.outcomes) : IsServerError(fw.outcomes[i])) =>
    /\ fw.calls = fw.retries + 1
    /\ fw.waits = [i \in 1..fw.retries |-> fw.backoff * 2 ^ (i - 1)]
    /\ (fw.retries = 2 /\ fw.backoff = 500 => fw.calls = 3 /\ fw.waits = <<500, 1000>>)

C1_Witness ==
  /\ FwDone
  /\ fw.retries = 2 /\ fw.backoff = 500
  /\ Len(fw.outcomes) = 3
  /\ \A i \in 1..3 : IsServerError(fw.outcomes[i])
  /\ fw.waits = <<500, 1000>>

\* C2, as the claim states it: a finished call whose attempts all failed has
\* thrown
C2_ExhaustionAlwaysThrows ==
  (FwDone /\ AllAttemptsFailed) => fw.pc = "thrown"

\* C2, amended: a finished call whose attempts all failed hands the last
\* failure to its caller: it throws the last error when the last attempt
\* failed with a network error or a timeout, and it returns the last response
\* when the last attempt was answered with a status >= 500
C2_ExhaustionDeliversLastFailure ==
  (FwDone /\ AllAttemptsFailed) =>
    LET last == fw.outcomes[Len(fw.outcomes)]
    IN /\ fw.result = last
       /\ (IsError(last) => fw.pc = "thrown")
       /\ (IsServerError(last) => fw.pc = "returned")

C2_Witness ==
  /\ FwDone /\ AllAttemptsFailed
  /\ fw.retries = 2
  /\ IsError(fw.outcomes[1])
  /\ IsServerError(fw.outcomes[3])
  /\ fw.pc = "returned"

\* C3: an attempt answered with a status below 500 is the last one: no wait
\* follows it, no further call is made, and the call returns that response
\* (with debug logging on, once the body of the clone has been logged)
C3_BelowServerErrorReturnsAtOnce ==
  \A i \in 1..Len(fw.outcomes) :
    (fw.outcomes[i].kind = "resp" /\ fw.outcomes[i].status < 500) =>
      /\ i = Len(fw.outcomes)
      /\ fw.calls = i
      /\ Len(fw.waits) = i - 1
      /\ fw.pc \in {"readBody", "returned"}
      /\ (fw.pc = "readBody" => debugEnabled)
      /\ (fw.pc = "returned" => fw.result = fw.outcomes[i])

C3_Witness ==
  /\ fw.pc = "returned"
  /\ fw.retries = 2
  /\ Len(fw.outcomes) = 1
  /\ fw.outcomes[1].status = 404
  /\ fw.calls = 1
  /\ fw.waits = <<>>

\* C4: after an attempt with index i < retries failed with a network error or
\* a timeout, the call has waited backoff * 2^i and either stands at the head
\* of the loop to issue attempt i+1 or has issued it; it throws only when no
\* attempt remains
C4_NetworkErrorWaitsThenRetries ==
  /\ \A i \in 1..Len(fw.outcomes) :
       (IsError(fw.outcomes[i]) /\ i - 1 < fw.retries) =>
         /\ Len(fw.waits) >= i
         /\ fw.waits[i] = fw.backoff * 2 ^ (i - 1)
         /\ fw.calls >= i
         /\ (fw.calls = i => fw.pc = "loop" /\ fw.attempt = i /\ fw.attempt <= fw.retries)
  /\ (fw.pc = "thrown" => Len(fw.outcomes) = fw.retries + 1)

C4_Witness ==
  /\ fw.retries = 2 /\ fw.backoff = 500
  /\ Len(fw.outcomes) >= 2
  /\ fw.outcomes[1].kind = "neterr"
  /\ fw.outcomes[2].kind = "timeout"
  /\ fw.waits = <<500, 1000>>
  /\ fw.calls = 3

\* C5, as the claim states it: a call that has not returned or thrown can
\* always take a step, so that no await of the wrapper outlasts the deadline
C5_CallCanAlwaysProceed ==
  fw.pc \in {"loop", "fetching", "readBody"} => ENABLED FwStep

(***************************************************************************)
(* Direct calls of buildAuthHeaders and scrubHeaders.                      *)
(***************************************************************************)
InitHeaders ==
  /\ debugEnabled = FALSE
  /\ storage = [api_key |-> <<>>, model |-> <<>>, language |-> <<>>, format |-> ""]
  /\ net = [steady |-> TRUE, statuses |-> ServiceStatuses]
  /\ cs = "listening"
  /\ logged = {}
  /\ requests = {}
  /\ oracle = NoAnswers
  /\ fw = IdleFetch
  /\ sm = IdleSend
  /\ ocr = IdleOcr
  /\ pt = IdleTab
  /\ rt = IdleTests
  /\ op = IdleOp
  /\ downloads = <<>>
  /\ prev = NoPrev
  /\ other = IdleOther
  /\ sw = IdleWorker
  /\ dom = IdleDom
  /\ tx = IdleText
  /\ \E key \in Keys \ {<<>>}, includeXApi \in BOOLEAN :
       LET built == buildAuthHeaders(key, includeXApi)
       IN hd = [IdleHeaders EXCEPT !.key = key, !.before = built, !.headers = built]

\* scrubHeaders(headers) is called on the headers built from the key
Scrub ==
  /\ ~hd.done
  /\ LET sc == scrubHeaders(hd.headers)
     IN hd' = [hd EXCEPT !.clean = sc.clean, !.headers = sc.headers, !.done = TRUE]
  /\ UNCHANGED <<other, sw, dom, tx, debugEnabled, storage, net, cs, logged, requests, oracle, fw, sm, ocr, pt,
                 rt, op, downloads, prev>>

NextHeaders == Scrub

SpecHeaders == InitHeaders /\ [][NextHeaders]_vars

(***************************************************************************)
(* Properties of the credential handling.                                  *)
(***************************************************************************)
\* the key in storage while the worker runs
StoredKey == storage.api_key

\* C6, as the claim states it: nothing written to a log sink contains the
\* stored API key, whenever that key is not empty
C6_NoLoggedValueHoldsKey ==
  StoredKey # <<>> => \A leaf \in logged : ~Contains(leaf, StoredKey)

\* C7, as the claim states it: the object scrubHeaders returns for headers
\* built from a non-empty key has "Bearer ***" as its Authorization value and
\* "***" as its X-API-Key value, the key occurs in none of its values, and
\* the object passed in is as it was
C7_ScrubMasksEveryKey ==
  hd.done =>
    /\ DOMAIN hd.clean = DOMAIN hd.before
    /\ hd.clean["Authorization"] = BearerMask
    /\ ("X-API-Key" \in DOMAIN hd.clean => hd.clean["X-API-Key"] = KeyMask)
    /\ \A h \in DOMAIN hd.clean : ~Contains(hd.clean[h], hd.key)
    /\ hd.headers = hd.before

\* C8, as the claim states it: a request that leaves the extension carries
\* the key in its Authorization header only: in no other header and not in
\* its body
C8_KeyTravelsInAuthorizationOnly ==
  StoredKey # <<>> =>
    \A r \in requests :
      /\ \A h \in DOMAIN r.headers \ {"Authorization"} : ~Contains(r.headers[h], StoredKey)
      /\ \A part \in r.body : ~Contains(part, StoredKey)

(***************************************************************************)
(* Properties of processTab, under Spec.                                   *)
(***************************************************************************)
\* what the content script gave is missing, empty or white space only
IsBlankExtraction(resp) ==
  \/ resp.kind \in {"null", "undefined"}
  \/ resp.kind = "object" /\ Trim(resp.markdown) = <<>>

\* processTab has returned after an extraction that did not throw
ExtractionOver ==
  /\ pt.pc = "done"
  /\ pt.selection.kind # "nonstring"
  /\ pt.response.kind # "nonstring"

\* C9: a processTab action whose extraction is blank has called fetchAndOCR
\* exactly once when it returns, and it returns false without a download
\* when the text fetchAndOCR gave is blank as well
C9_BlankExtractionCallsOcrOnce ==
  /\ pt.ocrCalls <= 1
  /\ (ExtractionOver /\ IsBlankExtraction(pt.response)) =>
        /\ pt.ocrCalls = 1
        /\ ocr.pc = "done"
        /\ (Trim(ocr.result) = <<>> => pt.result = FALSE /\ downloads = <<>>)

C9_Witness ==
  /\ ExtractionOver
  /\ pt.response = MarkdownResp(<<" ">>)
  /\ pt.ocrCalls = 1
  /\ fw.calls = 3
  /\ ocr.result = <<>>
  /\ pt.result = FALSE
  /\ downloads = <<>>

\* C10: a save_page action on a tab ends as the action in selection mode did
\* on the same tab when the selection was blank: the same return value and
\* the same downloads, each with its content, file name and type
C10_BlankSelectionEqualsPageMode ==
  (prev.ran /\ pt.pc = "done" /\ IsBlankExtraction(prev.selection)) =>
    /\ pt.result = prev.result
    /\ downloads = prev.downloads

C10_Witness ==
  /\ prev.ran
  /\ pt.pc = "done"
  /\ prev.selection = MarkdownResp(<<" ">>)
  /\ pt.response = MarkdownResp(<<"a">>)
  /\ prev.result = TRUE
  /\ pt.result = TRUE
  /\ Len(downloads) = 1
  /\ downloads = prev.downloads

\* C11: downloadContent is only ever called with content that is not empty
\* after trimming, and a processTab action whose final content is blank has
\* returned false without a download
C11_OnlyContentIsDownloaded ==
  /\ \A i \in 1..Len(downloads) : Trim(downloads[i].content) # <<>>
  /\ (pt.pc = "done" /\ Trim(pt.content) = <<>>) => pt.result = FALSE /\ downloads = <<>>

C11_Witness ==
  /\ pt.pc = "done"
  /\ pt.response = MarkdownResp(<<"a">>)
  /\ pt.settings.format = "markdown"
  /\ Len(downloads) = 1
  /\ downloads[1].content = <<"a">>
  /\ pt.result = TRUE

\* the content the stages of a processTab action came up with: the text of
\* the OCR fallback when it ran, otherwise the markdown of the extraction
StageYield ==
  IF pt.ocrCalls > 0 THEN ocr.result
  ELSE IF pt.response.kind = "object" THEN pt.response.markdown ELSE <<>>

\* that content in the output format
StageYieldConverted ==
  IF pt.settings.format = "text" /\ StageYield # <<>>
  THEN markdownToText(StageYield) ELSE StageYield

\* C12, as the claim states it: a finished action whose stages came up with
\* content that is not blank has called downloadContent
C12_ContentAlwaysReachesDownload ==
  (pt.pc = "done" /\ Trim(StageYield) # <<>>) => Len(downloads) = 1

\* C12, amended: a finished action whose stages came up with content that
\* is not blank once it is converted to the output format has called
\* downloadContent with the converted content
C12_ConvertedContentReachesDownload ==
  (pt.pc = "done" /\ Trim(StageYield) # <<>> /\ Trim(StageYieldConverted) # <<>>) =>
    /\ Len(downloads) = 1
    /\ downloads[1].content = StageYieldConverted

C12_Witness ==
  /\ pt.pc = "done"
  /\ pt.settings.format = "text"
  /\ pt.ocrCalls = 1
  /\ ocr.result = <<"a">>
  /\ Len(downloads) = 1
  /\ downloads[1].content = <<"a">>

\* the extraction of a processTab action failed: the last answer it got from
\* sendMessageWithInjection is null, undefined or carries no markdown string
ExtractionFailed ==
  \/ pt.selection.kind = "nonstring"
  \/ pt.response.kind # "object"

\* C13, as the claim states it: a processTab action whose extraction failed
\* has called fetchAndOCR before it ends
C13_FailedExtractionLeadsToOcr ==
  (pt.pc = "done" /\ ExtractionFailed) => pt.ocrCalls = 1

(***************************************************************************)
(* Properties of fetchAndOCR, under Spec.                                  *)
(***************************************************************************)
\* the environment has given answer a to question q
Answered(q, a) == q \in DOMAIN oracle /\ oracle[q] = a

\* the ways the fallback can fail: the tab's resource cannot be fetched,
\* fetchWithRetry throws, the OCR service answers with a status outside
\* 200..299, the body cannot be read or parsed
OcrFailed ==
  \/ Answered(<<TabUrl, 0>>, "fail")
  \/ fw.pc = "thrown"
  \/ fw.pc = "returned" /\ ~(fw.result.status \in 200..299)
  \/ fw.pc = "returned" /\ \E read \in {"text", "error"} :
        Answered(<<"ocrResp.text", 0>>, [read |-> read, data |-> Garbage])

\* C14: fetchAndOCR ends by returning, and it returns the empty string when
\* the fetch of the tab's resource failed, when fetchWithRetry threw, when
\* the status of the OCR response is no success, and when its body is no JSON
C14_OcrFailureYieldsEmpty ==
  /\ (ocr.pc = "done" /\ OcrFailed) => ocr.result = <<>>
  /\ (ocr.pc = "fetching" /\ fw.pc = "thrown") => ENABLED OcrThrown

C14_Witness ==
  /\ ocr.pc = "done"
  /\ fw.pc = "returned"
  /\ fw.result.status = 500
  /\ fw.calls = 3
  /\ ocr.result = <<>>

(***************************************************************************)
(* Progress of the actions, under Spec.                                    *)
(***************************************************************************)
\* a step of processTab or of a function it has called
PtStep ==
  \/ PtBegin \/ PtSelectionAnswered \/ PtPageAnswered \/ PtOcrReturned \/ PtDownloaded
  \/ SmSend \/ SmInject \/ SmResend
  \/ OcrTabFetched \/ OcrReturned \/ OcrThrown
  \/ FwStep

\* C15, as the claim states it: a processTab action that has not returned can
\* always take a step, whatever its collaborators do, so that it ends with
\* its boolean result
C15_ActionCanAlwaysProceed ==
  pt.pc \notin {"idle", "done"} => ENABLED PtStep

\* C16, as the claim states it: a saveTab message is answered once and never
\* twice, ok is true only after a download that reported success and false
\* without an active tab, and the handling of a message that has no answer
\* yet can always take a step towards it
C16_SaveTabAnsweredOnce ==
  op.kind = "saveTab" =>
    /\ op.answers <= 1
    /\ (op.pc = "responded" => op.answers = 1)
    /\ (op.pc = "responded" /\ op.ok =>
          pt.pc = "done" /\ pt.result /\ Len(downloads) = 1
            /\ Answered(<<"download", 0>>, TRUE))
    /\ (op.pc = "responded" /\ pt.pc = "idle" => ~op.ok)
    /\ (op.pc = "running" => ENABLED (PtStep \/ SaveTabRespond))

\* fetchAndOCR has returned after parsing the body d of a successful response
OcrParsed(d) ==
  /\ ocr.pc = "done"
  /\ fw.pc = "returned"
  /\ fw.result.status \in 200..299
  /\ Answered(<<"ocrResp.text", 0>>, [read |-> "text", data |-> d])

\* C17, as the claim states it: the result of fetchAndOCR for a parsed
\* response is the texts of its pages joined by a blank line, in page order,
\* when some page carries text, and otherwise its flat text field
C17_FirstNonEmptyFormIsUsed ==
  \A d \in DataSet :
    OcrParsed(d) =>
      LET pagesCarryText ==
            d.isArray /\ \E i \in 1..Len(d.pages) :
              d.pages[i].markdown # <<>> \/ d.pages[i].text # <<>>
          flat == IF d.text # <<>> THEN d.text ELSE d.markdown
      IN ocr.result = IF pagesCarryText THEN JoinPages(d.pages) ELSE flat

(***************************************************************************)
(* Direct calls of markdownToText.                                         *)
(***************************************************************************)
LinkPiece == <<"[", "a", "]", "(", "b", ")">>

ImagePiece == <<"!">> \o LinkPiece

\* the pieces the texts are made of: plain characters, markers, a line
\* break, a link, an image, and a bracketed and a parenthesised word
Pieces ==
  {<<"a">>, <<"*">>, <<"#">>, <<"\n">>, <<"[", "a", "]">>, <<"(", "b", ")">>,
   LinkPiece, ImagePiece}

RECURSIVE Concat(_)
Concat(ps) == IF ps = <<>> THEN <<>> ELSE Head(ps) \o Concat(Tail(ps))

InitText ==
  /\ debugEnabled = FALSE
  /\ storage = [api_key |-> <<>>, model |-> <<>>, language |-> <<>>, format |-> ""]
  /\ net = [steady |-> TRUE, statuses |-> ServiceStatuses]
  /\ cs = "listening"
  /\ logged = {}
  /\ requests = {}
  /\ oracle = NoAnswers
  /\ fw = IdleFetch
  /\ hd = IdleHeaders
  /\ sm = IdleSend
  /\ ocr = IdleOcr
  /\ pt = IdleTab
  /\ rt = IdleTests
  /\ op = IdleOp
  /\ downloads = <<>>
  /\ prev = NoPrev
  /\ other = IdleOther
  /\ sw = IdleWorker
  /\ dom = IdleDom
  /\ \E ps \in SeqsUpTo(Pieces, MaxPieces) :
       tx = [IdleText EXCEPT !.pieces = ps, !.input = Concat(ps)]

\* markdownToText(input)
Convert ==
  /\ tx.step = 0
  /\ tx' = [tx EXCEPT !.once = markdownToText(tx.input), !.step = 1]
  /\ UNCHANGED <<other, sw, dom, debugEnabled, storage, net, cs, logged, requests, oracle, fw, hd, sm, ocr,
                 pt, rt, op, downloads, prev>>

\* markdownToText applied to its own output
ConvertAgain ==
  /\ tx.step = 1
  /\ tx' = [tx EXCEPT !.twice = markdownToText(tx.once), !.step = 2]
  /\ UNCHANGED <<other, sw, dom, debugEnabled, storage, net, cs, logged, requests, oracle, fw, hd, sm, ocr,
                 pt, rt, op, downloads, prev>>

NextText == Convert \/ ConvertAgain

SpecText == InitText /\ [][NextText]_vars

\* C18, as the claim states it: converting the output of markdownToText
\* once more changes nothing
C18_ConversionIsIdempotent ==
  tx.step = 2 => tx.twice = tx.once

\* the pieces that are a link or an image construct
IsConstruct(p) == p \in {LinkPiece, ImagePiece}

\* no bracketed word of the text is directly followed by a parenthesised one,
\* so that its only links and images are the pieces that are constructs
ConstructsArePieces ==
  \A i \in 1..(Len(tx.pieces) - 1) :
    ~(tx.pieces[i] = <<"[", "a", "]">> /\ tx.pieces[i + 1] = <<"(", "b", ")">>)

\* the text with every construct replaced by r and the markers of the other
\* pieces removed
RECURSIVE WithConstructsAs(_, _)
WithConstructsAs(ps, r) ==
  IF ps = <<>> THEN <<>>
  ELSE (IF IsConstruct(Head(ps)) THEN r ELSE SelectSeq(Head(ps), IsNoMarker))
         \o WithConstructsAs(Tail(ps), r)

\* C19, as the claim states it: the output of markdownToText holds the label
\* of every link and image of its input in place of the construct
C19_LabelsAreKept ==
  (tx.step >= 1 /\ ConstructsArePieces) => tx.once = WithConstructsAs(tx.pieces, <<"a">>)

\* C20, as the claim states it: the output of markdownToText holds no marker
\* character, and it holds every character of the input that is neither a
\* marker nor part of a link or image, in the order of the input
C20_MarkersGoTextStays ==
  tx.step >= 1 =>
    /\ \A i \in 1..Len(tx.once) : tx.once[i] \notin MarkerChars
    /\ (ConstructsArePieces => tx.once = WithConstructsAs(tx.pieces, <<>>))

(***************************************************************************)
(* Properties of sendMessageWithInjection and of the requests of           *)
(* processTab, under Spec.                                                 *)
(***************************************************************************)
\* C21: a call of sendMessageWithInjection sends at most twice and injects at
\* most once, the injection coming after the first send and before the
\* second; a call whose injection or second send failed has returned null,
\* and a call that has not returned can always go on
C21_OneInjectionOneRetry ==
  /\ sm.sends <= 2
  /\ sm.injects <= 1
  /\ (sm.pc = "inject" => sm.sends = 1 /\ sm.injects = 0)
  /\ (sm.pc = "resend" => sm.sends = 1 /\ sm.injects = 1)
  /\ (sm.sends = 2 => sm.injects = 1 /\ sm.pc = "done")
  /\ (sm.pc = "done" /\ sm.injects = 1 /\ (sm.sends = 1 \/ cs # "listening") =>
        sm.result = NullResp)
  /\ (sm.pc \in {"send", "inject", "resend"} => ENABLED (SmSend \/ SmInject \/ SmResend))

C21_Witness ==
  /\ sm.pc = "done"
  /\ cs = "mute"
  /\ sm.sends = 2
  /\ sm.injects = 1
  /\ sm.result = NullResp

\* C22: in whole-page mode, which is what the save_page item starts,
\* processTab sends getPage and nothing else; in selection mode it sends
\* getSelection first, and getPage after it only when the selection came
\* back missing or blank
C22_RequestsFollowTheMode ==
  /\ (op.kind = "save_page" /\ op.pc = "running" => ~pt.preferSelection)
  /\ (op.kind = "save_selection" /\ op.pc = "running" => pt.preferSelection)
  /\ (pt.pc \notin {"idle", "settings"} =>
        IF pt.preferSelection
        THEN /\ pt.asked \in {<<"getSelection">>, <<"getSelection", "getPage">>}
             /\ (Len(pt.asked) = 2 => IsBlankExtraction(pt.selection))
             /\ (pt.pc = "done" /\ IsBlankExtraction(pt.selection)
                   /\ pt.selection.kind # "nonstring" => Len(pt.asked) = 2)
        ELSE pt.asked = <<"getPage">>)

C22_Witness ==
  /\ pt.pc = "done"
  /\ pt.preferSelection
  /\ pt.selection = MarkdownResp(<<" ">>)
  /\ pt.response = MarkdownResp(<<"a">>)
  /\ pt.asked = <<"getSelection", "getPage">>

----------------------------------------------------------------------------
\* the calls and the waits of one fetchWithRetry, under SpecFetch

RECURSIVE SumOf(_)
SumOf(waits) == IF waits = <<>> THEN 0 ELSE Head(waits) + SumOf(Tail(waits))

\* C30: whatever the attempts meet (network errors, timeouts, 5xx and other
\* responses, in any order) and whatever retries is, one call of
\* fetchWithRetry calls the target at most retries + 1 times and the waits it
\* inserts add up to at most backoff * (2^retries - 1): 1500 for a backoff
\* of 500 and 2 retries.
C30_CallsAndWaitsAreBounded ==
  /\ fw.calls <= fw.retries + 1
  /\ Len(fw.waits) <= fw.retries
  /\ SumOf(fw.waits) <= fw.backoff * (2 ^ fw.retries - 1)
  /\ (fw.backoff = DefaultBackoff /\ fw.retries = 2 => SumOf(fw.waits) <= 1500)

\* a call that met a network error and then a server error on every attempt
\* and so spent the whole allowance
C30_Witness ==
  /\ FwDone
  /\ fw.retries = MaxRetries
  /\ fw.calls = MaxRetries + 1
  /\ SumOf(fw.waits) = fw.backoff * (2 ^ MaxRetries - 1)
  /\ \E i, j \in 1..Len(fw.outcomes) :
       fw.outcomes[i] = NetError /\ IsServerError(fw.outcomes[j])

----------------------------------------------------------------------------
\* a refused key, under Spec

\* the call in flight was answered 401 or 403 and handed the answer back
Unauthorized == fw.pc = "returned" /\ fw.result.status \in {401, 403}

----------------------------------------------------------------------------
\* the file name and the MIME type of a download, under Spec

\* the titles the sanitizer is tried on, besides those of the tabs
MaxTitleLen == 3

TitleChars == {"a", "9", "-", "_", " "}

IsNameChar(c) == c \in NameChars

IsNoUnderscore(c) == c # "_"

\* C26: the file name handed to downloadContent is the sanitized page title,
\* "page" when the title is empty, followed by the extension of the chosen
\* format (.md for markdown, .txt for text, .json for json, .md for any other
\* value); the sanitized part is non-empty and holds only ASCII letters,
\* digits, '-' and '_'; the MIME type passed matches the same format.
C26_FilenameAndMimeFollowTheFormat ==
  pt.pc \notin {"idle", "settings"} =>
    LET format == pt.settings.format
        ext == CASE format = "text" -> <<".", "t", "x", "t">>
                 [] format = "json" -> <<".", "j", "s", "o", "n">>
                 [] OTHER -> <<".", "m", "d">>
        mime == CASE format = "text" -> "text/plain"
                  [] format = "json" -> "application/json"
                  [] OTHER -> "text/markdown"
        n == Len(pt.filename) - Len(ext)
        name == SubSeq(pt.filename, 1, n)
    IN /\ n >= 1
       /\ pt.filename = name \o ext
       /\ \A i \in 1..n : name[i] \in NameChars \cup {"_"}
       /\ (pt.tab.title = <<>> => name = <<"p", "a", "g", "e">>)
       /\ (pt.tab.title = <<"M", "y", " ", "/", "d", "-", "1">> =>
             name = <<"M", "y", "_", "d", "-", "1">>)
       /\ (pt.pc = "page" /\ sm.sends = 0 /\ oracle = NoAnswers =>
             \A t \in SeqsUpTo(TitleChars, MaxTitleLen) :
               LET clean == sanitizeFilename(TitleOrPage(Tab(t)))
               IN /\ clean # <<>>
                  /\ \A i \in 1..Len(clean) : clean[i] \in NameChars \cup {"_"}
                  /\ SelectSeq(clean, IsNoUnderscore) = SelectSeq(t, IsNameChar)
                       \/ t = <<>>)
       /\ (pt.pc = "download" =>
             /\ downloads # <<>>
             /\ downloads[Len(downloads)].filename = pt.filename
             /\ downloads[Len(downloads)].mime = mime)

\* a page without a title is being saved as text
C26_Witness ==
  /\ pt.pc = "download"
  /\ pt.tab.title = <<>>
  /\ pt.settings.format = "text"
  /\ downloads[Len(downloads)].filename = <<"p", "a", "g", "e", ".", "t", "x", "t">>
  /\ downloads[Len(downloads)].mime = "text/plain"

----------------------------------------------------------------------------
\* the debug flag of the worker and the stored debug setting: the start-up
\* load of lines 4-6, the onChanged listener of lines 8-12 and the checkbox
\* of the popup

\* how many times the checkbox is changed
MaxWrites == 3

\* the worker has just started: debugEnabled is false, the get of line 4 is
\* issued and not yet served
InitDebug ==
  /\ debugEnabled = FALSE
  /\ storage = [api_key |-> <<>>, model |-> <<>>, language |-> <<>>, format |-> ""]
  /\ net = [steady |-> TRUE, statuses |-> ServiceStatuses]
  /\ cs = "listening"
  /\ logged = {}
  /\ requests = {}
  /\ oracle = NoAnswers
  /\ fw = IdleFetch
  /\ hd = IdleHeaders
  /\ sm = IdleSend
  /\ ocr = IdleOcr
  /\ pt = IdleTab
  /\ rt = IdleTests
  /\ op = IdleOp
  /\ downloads = <<>>
  /\ prev = NoPrev
  /\ other = IdleOther
  /\ dom = IdleDom
  /\ tx = IdleText
  /\ \E stored \in BOOLEAN :
       sw = [stored |-> stored, load |-> "issued", loadValue |-> FALSE, events |-> <<>>,
             writes |-> 0]

\* chrome.storage.local.get("debug", resolve): the storage area serves the
\* get with the value it holds at that moment
DebugLoadServed ==
  /\ sw.load = "issued"
  /\ sw' = [sw EXCEPT !.load = "served", !.loadValue = sw.stored]
  /\ UNCHANGED <<other, dom, tx, debugEnabled, storage, net, cs, logged, requests, oracle, fw, hd,
                 sm, ocr, pt, rt, op, downloads, prev>>

\* the callback of line 4 runs: debugEnabled = !!items.debug
DebugLoadDelivered ==
  /\ sw.load = "served"
  /\ debugEnabled' = sw.loadValue
  /\ sw' = [sw EXCEPT !.load = "delivered"]
  /\ UNCHANGED <<other, dom, tx, storage, net, cs, logged, requests, oracle, fw, hd,
                 sm, ocr, pt, rt, op, downloads, prev>>

\* the change handler of the popup: storageSet({debug: e.target.checked}); a
\* value that differs from the stored one raises a change notification
PopupDebugChange ==
  /\ sw.writes < MaxWrites
  /\ \E checked \in BOOLEAN :
       sw' = [sw EXCEPT !.stored = checked,
                        !.writes = @ + 1,
                        !.events = IF checked # sw.stored THEN Append(@, checked) ELSE @]
  /\ UNCHANGED <<other, dom, tx, debugEnabled, storage, net, cs, logged, requests, oracle, fw, hd,
                 sm, ocr, pt, rt, op, downloads, prev>>

\* the onChanged listener runs for the oldest notification:
\* debugEnabled = changes.debug.newValue
DebugChanged ==
  /\ sw.events # <<>>
  /\ debugEnabled' = Head(sw.events)
  /\ sw' = [sw EXCEPT !.events = Tail(@)]
  /\ UNCHANGED <<other, dom, tx, storage, net, cs, logged, requests, oracle, fw, hd,
                 sm, ocr, pt, rt, op, downloads, prev>>

NextDebug == DebugLoadServed \/ DebugLoadDelivered \/ PopupDebugChange \/ DebugChanged

SpecDebug == InitDebug /\ [][NextDebug]_vars

\* C24: the debug flag of the worker follows the stored debug setting: under
\* every interleaving of the start-up load callback and the change
\* notifications, once all pending callbacks are delivered debugEnabled
\* equals the latest stored value of the debug flag.
C24_DebugFlagFollowsStorage ==
  (sw.load = "delivered" /\ sw.events = <<>>) => debugEnabled = sw.stored

----------------------------------------------------------------------------
\* the content script on sample trees and sample pages

\* the tags of the sample elements; div and span stand for the tags without
\* a rule
Tags == {"h1", "h2", "h3", "strong", "b", "em", "i", "p", "br", "li", "ul", "ol",
         "div", "span"}

Hrefs == {NoAttr, Attr(<<>>), Attr(<<"u">>)}

Leaves ==
  {TextNode(<<>>), TextNode(<<"x">>), CommentNode, Elem("br", <<>>),
   Image(NoAttr, NoAttr), Image(Attr(<<>>), Attr(<<"u">>)), Image(Attr(<<"x">>), NoAttr)}

\* the elements over a sequence of children
Over(kids) == {Elem(t, kids) : t \in Tags} \cup {Link(h, kids) : h \in Hrefs}

Nodes1 == UNION {Over(kids) : kids \in SeqsUpTo(Leaves, MaxChildren)}

\* the elements around one element with at most one child
Nodes2 == UNION {Over(<<n>>) : n \in UNION {Over(kids) : kids \in SeqsUpTo(Leaves, 1)}}

\* <h1>Title</h1><p>Hello <b>world</b></p>, in the div of htmlToMarkdown
ExampleTree ==
  Elem("div", <<Elem("h1", <<TextNode(<<"Title">>)>>),
                Elem("p", <<TextNode(<<"Hello ">>),
                            Elem("b", <<TextNode(<<"world">>)>>)>>)>>)

Trees == Leaves \cup Nodes1 \cup Nodes2 \cup {ExampleTree}

\* what the body of a sample page is made of
PageParts ==
  {TextNode(<<"x">>),
   Elem("p", <<TextNode(<<"x">>)>>),
   Elem("header", <<TextNode(<<"x">>)>>),
   Elem("script", <<TextNode(<<"x">>)>>),
   Elem("main", <<Elem("p", <<TextNode(<<"x">>)>>), Elem("style", <<TextNode(<<"x">>)>>)>>),
   Elem("div", <<Elem("nav", <<TextNode(<<"x">>)>>), Link(Attr(<<"u">>), <<TextNode(<<"x">>)>>)>>)}

Pages == SeqsUpTo(PageParts, MaxChildren)

\* the selections of a page: none, or a run of children of the body
SelectionsOf(page) ==
  {NoSelection} \cup {s \in {Selection(i, j) : i \in 1..Len(page), j \in 1..Len(page)} :
                         s.from <= s.to}

\* how many requests a page gets
MaxRequests == 2

InitDom ==
  /\ debugEnabled = FALSE
  /\ storage = [api_key |-> <<>>, model |-> <<>>, language |-> <<>>, format |-> ""]
  /\ net = [steady |-> TRUE, statuses |-> ServiceStatuses]
  /\ cs = "listening"
  /\ logged = {}
  /\ requests = {}
  /\ oracle = NoAnswers
  /\ fw = IdleFetch
  /\ hd = IdleHeaders
  /\ sm = IdleSend
  /\ ocr = IdleOcr
  /\ pt = IdleTab
  /\ rt = IdleTests
  /\ op = IdleOp
  /\ downloads = <<>>
  /\ prev = NoPrev
  /\ other = IdleOther
  /\ sw = IdleWorker
  /\ tx = IdleText
  /\ \/ \E node \in Trees : dom = [IdleDom EXCEPT !.mode = "node", !.node = node]
     \/ \E page \in Pages :
          \E selection \in SelectionsOf(page) :
            dom = [IdleDom EXCEPT !.mode = "page",
                                  !.live = Document(page), !.before = Document(page),
                                  !.selection = selection, !.selectionBefore = selection]

\* nodeToMarkdown(node)
NodeConverted ==
  /\ dom.mode = "node"
  /\ ~dom.done
  /\ dom' = [dom EXCEPT !.out = nodeToMarkdown(dom.node), !.done = TRUE]
  /\ UNCHANGED <<other, sw, tx, debugEnabled, storage, net, cs, logged, requests, oracle, fw, hd,
                 sm, ocr, pt, rt, op, downloads, prev>>

\* the listener of lines 72-79, req.type === "getPage"
OnGetPage ==
  /\ dom.mode = "page"
  /\ Len(dom.replies) < MaxRequests
  /\ LET r == getPageMarkdown(dom.live)
     IN dom' = [dom EXCEPT !.live = r.document,
                           !.replies = Append(@, [type |-> "getPage", markdown |-> r.markdown])]
  /\ UNCHANGED <<other, sw, tx, debugEnabled, storage, net, cs, logged, requests, oracle, fw, hd,
                 sm, ocr, pt, rt, op, downloads, prev>>

\* the listener of lines 72-79, req.type === "getSelection"
OnGetSelection ==
  /\ dom.mode = "page"
  /\ Len(dom.replies) < MaxRequests
  /\ LET r == getSelectionMarkdown(dom.live, dom.selection)
     IN dom' = [dom EXCEPT !.live = r.document,
                           !.selection = r.selection,
                           !.replies = Append(@, [type |-> "getSelection",
                                                  markdown |-> r.markdown])]
  /\ UNCHANGED <<other, sw, tx, debugEnabled, storage, net, cs, logged, requests, oracle, fw, hd,
                 sm, ocr, pt, rt, op, downloads, prev>>

NextDom == NodeConverted \/ OnGetPage \/ OnGetSelection

SpecDom == InitDom /\ [][NextDom]_vars

\* the conversions of the children, one after the other
ChildrenOut(node) == Concat([i \in 1..Len(node.kids) |-> nodeToMarkdown(node.kids[i])])

\* C27 as stated: nodeToMarkdown follows the rules of the text node, h1, h2,
\* h3, b/strong, i/em, p, br, li, ul/ol, and every other element passes the
\* conversion of its children through unchanged; the example gives
\* "# Title\n\nHello **world**\n\n".
C27_EveryOtherElementPassesThrough ==
  dom.mode = "node" /\ dom.done =>
    LET node == dom.node
        tag == node.tag
        content == ChildrenOut(node)
    IN /\ (node.type = "text" => dom.out = node.text)
       /\ (node.type = "element" =>
             dom.out = CASE tag = "h1" -> <<"#", " ">> \o content \o <<"\n", "\n">>
                         [] tag = "h2" -> <<"#", "#", " ">> \o content \o <<"\n", "\n">>
                         [] tag = "h3" -> <<"#", "#", "#", " ">> \o content \o <<"\n", "\n">>
                         [] tag \in {"b", "strong"} -> <<"*", "*">> \o content \o <<"*", "*">>
                         [] tag \in {"i", "em"} -> <<"*">> \o content \o <<"*">>
                         [] tag = "p" -> content \o <<"\n", "\n">>
                         [] tag = "br" -> <<"\n">>
                         [] tag = "li" -> <<"-", " ">> \o content \o <<"\n">>
                         [] tag \in {"ul", "ol"} -> <<"\n">> \o content \o <<"\n">>
                         [] OTHER -> content)
       /\ (node = Elem("div", <<>>) => dom.out = <<>>)
       /\ (node = ExampleTree =>
             dom.out = <<"#", " ", "Title", "\n", "\n", "Hello ", "*", "*", "world", "*", "*",
                         "\n", "\n">>)

\* C27, amended: the same rules, with the link and the image as elements
\* with a rule of their own: a gives [children](href), img gives ![alt](src),
\* a missing attribute counting as empty; every element other than these
\* passes the conversion of its children through unchanged, and a node that
\* is neither text nor element gives the empty string.
C27_RulesWithLinkAndImage ==
  dom.mode = "node" /\ dom.done =>
    LET node == dom.node
        tag == node.tag
        content == ChildrenOut(node)
        value(attr) == IF attr.has THEN attr.value ELSE <<>>
    IN /\ (node.type = "text" => dom.out = node.text)
       /\ (node.type = "comment" => dom.out = <<>>)
       /\ (node.type = "element" =>
             dom.out = CASE tag = "h1" -> <<"#", " ">> \o content \o <<"\n", "\n">>
                         [] tag = "h2" -> <<"#", "#", " ">> \o content \o <<"\n", "\n">>
                         [] tag = "h3" -> <<"#", "#", "#", " ">> \o content \o <<"\n", "\n">>
                         [] tag \in {"b", "strong"} -> <<"*", "*">> \o content \o <<"*", "*">>
                         [] tag \in {"i", "em"} -> <<"*">> \o content \o <<"*">>
                         [] tag = "p" -> content \o <<"\n", "\n">>
                         [] tag = "br" -> <<"\n">>
                         [] tag = "li" -> <<"-", " ">> \o content \o <<"\n">>
                         [] tag \in {"ul", "ol"} -> <<"\n">> \o content \o <<"\n">>
                         [] tag = "a" -> <<"[">> \o content \o <<"]", "(">>
                                           \o value(node.href) \o <<")">>
                         [] tag = "img" -> <<"!", "[">> \o value(node.alt) \o <<"]", "(">>
                                             \o value(node.src) \o <<")">>
                         [] OTHER -> content)
       /\ (node = Elem("div", <<>>) => dom.out = <<>>)
       /\ (node = ExampleTree =>
             dom.out = <<"#", " ", "Title", "\n", "\n", "Hello ", "*", "*", "world", "*", "*",
                         "\n", "\n">>)

\* the example has been converted
C27_Witness ==
  /\ dom.mode = "node"
  /\ dom.done
  /\ dom.node = ExampleTree
  /\ dom.out = <<"#", " ", "Title", "\n", "\n", "Hello ", "*", "*", "world", "*", "*",
                 "\n", "\n">>

\* C28: for a link without an href and an image without a src or an alt,
\* nodeToMarkdown puts the empty string in that position ("[label]()",
\* "![]()"); the output never holds the text undefined or null for a missing
\* attribute.
C28_MissingAttributeIsEmpty ==
  dom.mode = "node" /\ dom.done =>
    LET node == dom.node
    IN /\ (node.tag = "a" /\ ~node.href.has =>
             dom.out = <<"[">> \o ChildrenOut(node) \o <<"]", "(", ")">>)
       /\ (node.tag = "img" /\ ~node.alt.has /\ ~node.src.has =>
             dom.out = <<"!", "[", "]", "(", ")">>)
       /\ (node.tag = "img" /\ ~node.alt.has /\ node.src.has =>
             dom.out = <<"!", "[", "]", "(">> \o node.src.value \o <<")">>)
       /\ (node.tag = "img" /\ node.alt.has /\ ~node.src.has =>
             dom.out = <<"!", "[">> \o node.alt.value \o <<"]", "(", ")">>)
       /\ \A i \in 1..Len(dom.out) : dom.out[i] \notin {"undefined", "null"}

\* a link without an href around an image without attributes
C28_Witness ==
  /\ dom.mode = "node"
  /\ dom.done
  /\ dom.node = Link(NoAttr, <<Image(NoAttr, NoAttr)>>)
  /\ dom.out = <<"[", "!", "[", "]", "(", ")", "]", "(", ")">>

\* C29: extraction leaves the live page unchanged: getPageMarkdown strips
\* the boilerplate from a clone only and getSelectionMarkdown converts a
\* cloned fragment only, so the live document and the selection are the same
\* before and after any getPage or getSelection request, and a request
\* repeated on the same tree gets the same output.
C29_ExtractionLeavesThePageAlone ==
  dom.mode = "page" =>
    /\ dom.live = dom.before
    /\ dom.selection = dom.selectionBefore
    /\ \A i, j \in 1..Len(dom.replies) :
         dom.replies[i].type = dom.replies[j].type =>
           dom.replies[i].markdown = dom.replies[j].markdown

\* a page with a header before its text was asked for twice: the header is
\* still on the page and not in the answers
C29_Witness ==
  /\ dom.mode = "page"
  /\ dom.before = Document(<<Elem("header", <<TextNode(<<"x">>)>>), Elem("p", <<TextNode(<<"x">>)>>)>>)
  /\ dom.live = dom.before
  /\ Len(dom.replies) = 2
  /\ dom.replies[1] = [type |-> "getPage", markdown |-> <<"x", "\n", "\n">>]
  /\ dom.replies[2] = dom.replies[1]

----------------------------------------------------------------------------
\* two processTab actions in flight on the same tab, and the popup saving
\* settings meanwhile.  The worker runs one action at a time between two
\* awaits: the frames of the action that waits are kept in other, and a
\* switch hands the worker to it.

\* the settings the popup stores before and after
PairSettings ==
  {[api_key |-> <<"k", "9">>, model |-> <<>>, language |-> <<>>, format |-> "text"],
   [api_key |-> <<"k", "9", " ", "9", "k">>, model |-> <<"pixtral">>,
    language |-> <<"e", "n">>, format |-> "json"]}

PairTab == Tab(<<"M", "y", " ", "/", "d", "-", "1">>)

\* what the page, the tab's URL, the OCR service and the download answer
\* during the two actions: the same to both
PairAnswers(selection, page, service) ==
  (<<"getSelection", 0>> :> selection)
    @@ (<<"getPage", 0>> :> page)
    @@ (<<TabUrl, 0>> :> "image/png")
    @@ (<<OcrUrl, 0>> :> service)
    @@ (<<"ocrResp.text", 0>> :>
          [read |-> "text", data |-> Data(TRUE, <<Page(<<"a">>, <<>>)>>, <<>>, <<>>)])
    @@ (<<"download", 0>> :> TRUE)

PairEnvironments ==
  {PairAnswers(selection, page, service) :
     selection \in {MarkdownResp(<<" ">>), MarkdownResp(<<"a">>)},
     page \in {MarkdownResp(<<>>), MarkdownResp(<<"#">>), MarkdownResp(<<"a">>)},
     service \in {Response(200, "text"), NetError, AbortError}}

InitPair ==
  /\ debugEnabled = TRUE
  /\ storage \in PairSettings
  /\ net = [steady |-> TRUE, statuses |-> ServiceStatuses]
  /\ cs \in {"listening", "absent"}
  /\ logged = {}
  /\ requests = {}
  /\ oracle \in PairEnvironments
  /\ fw = IdleFetch
  /\ hd = IdleHeaders
  /\ sm = IdleSend
  /\ ocr = IdleOcr
  /\ rt = IdleTests
  /\ op = IdleOp
  /\ downloads = <<>>
  /\ prev = NoPrev
  /\ sw = IdleWorker
  /\ dom = IdleDom
  /\ tx = IdleText
  /\ \E first \in BOOLEAN, second \in BOOLEAN :
       /\ second => first
       /\ pt = TabCall(PairTab, first)
       /\ other = [IdleOther EXCEPT !.pt = TabCall(PairTab, second), !.active = 1, !.cs = cs]

\* the action in flight reaches an await and the other action goes on
Switch ==
  /\ other.active # 0
  /\ pt' = other.pt
  /\ sm' = other.sm
  /\ ocr' = other.ocr
  /\ fw' = other.fw
  /\ downloads' = other.downloads
  /\ other' = [other EXCEPT !.pt = pt, !.sm = sm, !.ocr = ocr, !.fw = fw,
                            !.downloads = downloads, !.active = 3 - @]
  /\ UNCHANGED <<sw, dom, tx, debugEnabled, storage, net, cs, logged, requests, oracle, hd, rt,
                 op, prev>>

\* popup.js, saveSettings: one storageSet of the four settings; which
\* actions had read their settings by then is kept for the record
PopupSaveSettings ==
  /\ other.active # 0
  /\ ~other.written
  /\ \E new \in PairSettings \ {storage} : storage' = new
  /\ other' = [other EXCEPT
       !.written = TRUE,
       !.before = getSettings(storage),
       !.readBefore = {i \in {other.active} : pt.pc # "settings"}
                        \cup {i \in {3 - other.active} : other.pt.pc # "settings"}]
  /\ UNCHANGED <<sw, dom, tx, debugEnabled, net, cs, logged, requests, oracle, fw, hd, sm, ocr,
                 pt, rt, op, downloads, prev>>

NextPair ==
  \/ PtBegin \/ PtSelectionAnswered \/ PtPageAnswered \/ PtOcrReturned \/ PtDownloaded
  \/ SmSend \/ SmInject \/ SmResend
  \/ OcrTabFetched \/ OcrReturned \/ OcrThrown
  \/ FwLoop \/ FwNetError \/ FwTimeout \/ FwResponse \/ FwBodyRead
  \/ Switch \/ PopupSaveSettings

SpecPair == InitPair /\ [][NextPair]_vars

\* the two actions: the one the worker is running and the one that waits
Running == [id |-> other.active, pt |-> pt, ocr |-> ocr, fw |-> fw, downloads |-> downloads]

Waiting ==
  [id |-> 3 - other.active, pt |-> other.pt, ocr |-> other.ocr, fw |-> other.fw,
   downloads |-> other.downloads]

\* what the content script of the tab answers an action that runs alone
AnswerAlone(type) ==
  IF other.cs = "mute" THEN NullResp ELSE oracle[<<type, 0>>]

\* what fetchAndOCR returns to an action that runs alone, lines 172-232
OcrAlone ==
  IF oracle[<<TabUrl, 0>>] = "fail" THEN <<>>
  ELSE IF oracle[<<OcrUrl, 0>>].kind # "resp" THEN <<>>
  ELSE IF oracle[<<"ocrResp.text", 0>>].read = "error" THEN <<>>
  ELSE IF ~Ok(oracle[<<OcrUrl, 0>>].status) THEN <<>>
  ELSE IF oracle[<<"ocrResp.text", 0>>].data = Garbage THEN <<>>
  ELSE OcrText(oracle[<<"ocrResp.text", 0>>].data)

\* what processTab comes to when it runs alone with these settings, lines
\* 266-298: its result and its downloads
Alone(settings, preferSelection) ==
  LET selection == AnswerAlone("getSelection")
      resp == IF preferSelection /\ selection.kind = "nonstring" THEN selection
              ELSE IF preferSelection /\ ~SelectionFallsThrough(selection) THEN selection
              ELSE AnswerAlone("getPage")
      content == IF NeedsOcr(resp) THEN OcrAlone ELSE resp.markdown
      out == IF settings.format = "text" /\ content # <<>>
             THEN markdownToText(content) ELSE content
  IN IF resp.kind = "nonstring" \/ Blank(out)
     THEN [result |-> FALSE, downloads |-> <<>>]
     ELSE [result |-> oracle[<<"download", 0>>],
           downloads |-> <<[content |-> out,
                            filename |-> sanitizeFilename(TitleOrPage(PairTab))
                                           \o ExtOf(settings.format),
                            mime |-> MimeOf(settings.format)]>>]

\* the settings of an action are those stored when it read them
KeepsItsSnapshot(a) ==
  a.pt.pc # "settings" =>
    a.pt.settings = IF other.written /\ a.id \in other.readBefore
                    THEN other.before ELSE getSettings(storage)

\* the format, extension, MIME type, key, model and language an action uses
\* are those of its settings
UsesItsSnapshot(a) ==
  /\ (a.pt.pc # "settings" =>
        a.pt.filename = sanitizeFilename(TitleOrPage(PairTab)) \o ExtOf(a.pt.settings.format))
  /\ (a.ocr.pc # "idle" => a.ocr.settings = a.pt.settings)
  /\ (a.fw.pc # "idle" =>
        /\ a.fw.options.body = OcrBody(a.pt.settings, oracle[<<TabUrl, 0>>])
        /\ a.fw.options.headers =
             scrubHeaders(("Content-Type" :> JsonType)
                            @@ buildAuthHeaders(a.pt.settings.apiKey, TRUE)).headers)
  /\ \A i \in 1..Len(a.downloads) :
       /\ a.downloads[i].mime = MimeOf(a.pt.settings.format)
       /\ a.downloads[i].filename = a.pt.filename
       /\ (a.pt.settings.format = "text" =>
             a.downloads[i].content = markdownToText(a.downloads[i].content))

\* an action that has returned came to what it comes to alone
EndsAsAlone(a) ==
  a.pt.pc = "done" =>
    /\ a.pt.result = Alone(a.pt.settings, a.pt.preferSelection).result
    /\ a.downloads = Alone(a.pt.settings, a.pt.preferSelection).downloads

\* C23: each processTab action reads the settings once, at its start; a
\* settings write that arrives while the action is in flight changes neither
\* the format, file extension and MIME type nor the API key, model and
\* language the action uses; and two actions in flight at the same time each
\* come to the result they come to alone.
C23_ActionsKeepTheirSnapshot ==
  other.active # 0 =>
    \A a \in {Running, Waiting} :
      KeepsItsSnapshot(a) /\ UsesItsSnapshot(a) /\ EndsAsAlone(a)

\* both actions have saved the page, one with the settings stored before the
\* write and one with those stored after it
C23_Witness ==
  /\ other.active # 0
  /\ other.written
  /\ other.readBefore = {1}
  /\ pt.pc = "done"
  /\ other.pt.pc = "done"
  /\ pt.settings # other.pt.settings
  /\ pt.result
  /\ other.pt.result
  /\ Len(downloads) = 1
  /\ Len(other.downloads) = 1
  /\ downloads[1].mime # other.downloads[1].mime

----------------------------------------------------------------------------
\* the end of the loop of fetchWithRetry, under SpecFetch

\* C35: for every retries >= 0 the final statement of fetchWithRetry, the
\* throw of "fetchWithRetry exhausted retries", is never reached: the loop is
\* never entered with an attempt index beyond retries, and the attempt with
\* index = retries either returns the response or rethrows the caught error.
C35_FinalThrowIsUnreachable ==
  /\ fw.result # ExhaustedError
  /\ fw.attempt <= fw.retries
  /\ (fw.pc = "thrown" =>
        /\ fw.attempt = fw.retries
        /\ fw.result \in {NetError, AbortError}
        /\ fw.result = fw.outcomes[Len(fw.outcomes)])
  /\ (fw.pc = "returned" => fw.result = fw.resp /\ fw.result.kind = "resp")

\* the last attempt of a call with the largest number of retries met a
\* network error, which was rethrown from the catch clause
C35_Witness ==
  /\ fw.pc = "thrown"
  /\ fw.retries = MaxRetries
  /\ fw.attempt = MaxRetries
  /\ fw.calls = MaxRetries + 1
  /\ fw.result = NetError

----------------------------------------------------------------------------
\* when the OCR fallback runs, under Spec

\* the content script has answered the action with text that is not blank
AnsweredWithText ==
  /\ pt.pc \in {"ocr", "download", "done"}
  /\ pt.response.kind = "object"
  /\ Trim(pt.response.markdown) # <<>>

\* C31: the OCR fallback is invoked only when the extraction yielded blank
\* content: in an action where the content script returned non-blank text
\* the tab's resource is never fetched, no request is sent to the OCR
\* service and the API key leaves the extension in no request.
C31_OcrOnlyAfterBlankExtraction ==
  /\ (AnsweredWithText =>
        /\ pt.ocrCalls = 0
        /\ pt.pc # "ocr"
        /\ ocr.pc = "idle"
        /\ fw.pc = "idle"
        /\ \A r \in requests :
             /\ r.url \notin {TabUrl, OcrUrl}
             /\ StoredKey = <<>> \/ \A h \in DOMAIN r.headers : ~Contains(r.headers[h], StoredKey)
        /\ requests = {})
  /\ (pt.ocrCalls > 0 \/ pt.pc = "ocr" => IsBlankExtraction(pt.response))
  /\ (requests # {} /\ rt.pc = "idle" =>
        \/ pt.ocrCalls > 0
        \/ prev.ran /\ IsBlankExtraction(prev.selection))

\* a page with text was saved with a key in the storage and nothing was
\* requested
C31_Witness ==
  /\ pt.pc = "done"
  /\ pt.result
  /\ pt.response = MarkdownResp(<<"a">>)
  /\ StoredKey # <<>>
  /\ downloads # <<>>
  /\ requests = {}

----------------------------------------------------------------------------
\* the order of the stages of one processTab action, under Spec

\* the moves of processTab from one await to the next that keep the order
\* extraction, OCR fallback, conversion and persistence
StageOrder ==
  {<<"settings", "selection">>, <<"settings", "page">>,
   <<"selection", "page">>, <<"selection", "ocr">>, <<"selection", "download">>,
   <<"selection", "done">>,
   <<"page", "ocr">>, <<"page", "download">>, <<"page", "done">>,
   <<"ocr", "download">>, <<"ocr", "done">>,
   <<"download", "done">>}

\* one step of the worker keeps the stages of the action in order
StageStep ==
  LET started == pt'.pc = "settings" /\ pt.pc # "settings"
      captured == IF pt.pc = "ocr" THEN ocr.result ELSE sm.result.markdown
      converted == IF pt.settings.format = "text" /\ captured # <<>>
                   THEN markdownToText(captured) ELSE captured
  IN /\ (pt'.pc # pt.pc /\ ~started => <<pt.pc, pt'.pc>> \in StageOrder)
     /\ (pt'.pc = "ocr" /\ pt.pc # "ocr" =>
           /\ sm.pc = "done"
           /\ pt.ocrCalls = 0
           /\ downloads' = downloads
           /\ downloads = <<>>)
     /\ (downloads' # downloads /\ ~started =>
           /\ downloads = <<>>
           /\ Len(downloads') = 1
           /\ pt'.pc = "download"
           /\ pt.pc \in {"selection", "page", "ocr"}
           /\ sm.pc = "done"
           /\ (pt.pc = "ocr" => ocr.pc = "done" /\ pt.ocrCalls = 1)
           /\ (pt.pc # "ocr" => pt.ocrCalls = 0 /\ ocr.pc = "idle")
           /\ downloads'[1].content = converted)
     /\ (pt'.pc = "download" /\ pt.pc # "download" => Len(downloads') = Len(downloads) + 1)
     /\ (pt.pc \in {"download", "done"} /\ ~started =>
           /\ downloads' = downloads
           /\ ocr' = ocr
           /\ sm' = sm
           /\ pt'.ocrCalls = pt.ocrCalls)

\* C32: within one processTab action the stages occur in the order
\* extraction, then possibly the OCR fallback, then format conversion, then
\* persistence; persistence is invoked at most once per action and never
\* before the extraction and any OCR fallback of that action have completed.
C32_StagesInOrder == [][StageStep]_vars

\* an action has gone through every stage: a blank extraction, the OCR
\* fallback, the conversion to plain text and the download
C32_Witness ==
  /\ pt.pc = "done"
  /\ pt.ocrCalls = 1
  /\ ocr.pc = "done"
  /\ pt.settings.format = "text"
  /\ Len(downloads) = 1
  /\ downloads[1].content = markdownToText(ocr.result)
  /\ pt.result

----------------------------------------------------------------------------
\* what the conversion does to the content, under Spec

\* what the action captured: the text of fetchAndOCR when it was called,
\* else the markdown of the content script's answer
Captured == IF pt.ocrCalls > 0 THEN ocr.result ELSE pt.response.markdown

\* C33: the format conversion changes the content only for the plain-text
\* format: when the chosen format is markdown, json or any unrecognized
\* value, the content handed to downloadContent is exactly the captured
\* content, from the extraction or from OCR, unchanged.
C33_OnlyTextIsConverted ==
  pt.pc \in {"download", "done"} /\ pt.response.kind # "nonstring" =>
    /\ (pt.settings.format # "text" =>
          /\ pt.content = Captured
          /\ \A i \in 1..Len(downloads) : downloads[i].content = Captured)
    /\ (pt.settings.format = "text" =>
          \A i \in 1..Len(downloads) : downloads[i].content = markdownToText(Captured))
    /\ (pt.pc = "download" => downloads # <<>>)

\* a page of a heading marker alone is saved as it is in the json format,
\* where the text conversion would have changed it
C33_Witness ==
  /\ pt.pc = "done"
  /\ Len(downloads) = 1
  /\ pt.settings.format = "json"
  /\ pt.response = MarkdownResp(<<"#">>)
  /\ downloads[1].content = <<"#">>
  /\ downloads[1].content # markdownToText(downloads[1].content)

----------------------------------------------------------------------------
\* the self-test and its answer, under Spec

\* the entries runTests pushes for the API-key check (line 311)
KeyEntries == {"API key set", "API key missing"}

\* the entries runTests pushes for the content-script check (lines 313-337)
ContentEntries ==
  {"Content script accessible", "Content script returned empty",
   "Content script unreachable", "Invalid content script response", "No active tab"}

\* the five conditions, read from the collaborators and not from the flags of
\* runTests: a stored key, a string from the content script, a response of
\* the models endpoint, its status 200, a parsed list with a model in it
FiveConditions ==
  /\ StoredKey # <<>>
  /\ sm.pc = "done" /\ sm.result.kind = "object"
  /\ fw.pc = "returned"
  /\ fw.result.status = 200
  /\ Answered(<<"resp.text", 0>>, [read |-> "text", list |-> "listed"])

\* passed is true exactly under the five conditions
RtVerdictMatches == rt.pc = "done" => (rt.passed <=> FiveConditions)

\* the report opens with the entry of the key check, followed by the entry of
\* the content-script check
RtDetailsComplete ==
  rt.pc = "done" =>
    /\ Len(rt.details) >= 2
    /\ rt.details[1] \in KeyEntries
    /\ (rt.details[1] = "API key set" <=> StoredKey # <<>>)
    /\ rt.details[2] \in ContentEntries

\* no runTests message is answered twice, the answer is the report of
\* runTests, and a runTests that threw is answered with passed = false
RunTestsAnsweredAtMostOnce ==
  op.kind = "runTests" =>
    /\ op.answers <= 1
    /\ (op.pc = "responded" <=> op.answers = 1)
    /\ (op.pc = "responded" /\ rt.pc = "done" =>
          op.ok = rt.passed /\ op.details = rt.details)
    /\ (op.pc = "responded" /\ rt.pc = "thrown" =>
          ~op.ok /\ op.details = <<"Exception">>)
    /\ (op.pc = "responded" => rt.pc \in {"done", "thrown"})

\* the steps of a runTests message on the way to its answer
RtStep ==
  \/ RtContentAnswered \/ RtApi \/ RtApiReturned \/ RtApiThrown
  \/ SmSend \/ SmInject \/ SmResend
  \/ FwStep
  \/ RunTestsRespond \/ RunTestsCatch

\* C34, as the claim states it: runTests reports passed = true exactly when
\* a key is stored, the content script answered with a string, the models
\* endpoint was reached, answered 200 and listed a model; the details hold an
\* entry of the key check and of the content-script check; and every
\* runTests message is answered exactly once, also when runTests throws, so
\* that a message without an answer can always take a step towards it
C34_SelfTestReportsAndAnswers ==
  /\ RtVerdictMatches
  /\ RtDetailsComplete
  /\ RunTestsAnsweredAtMostOnce
  /\ (op.kind = "runTests" /\ op.pc = "running" => ENABLED RtStep)

============================================================================
